---- MODULE Spec2Model ----
(***************************************************************************)
(* unipile-cli: recipient resolution (src/src/resolver.ts), the inbox      *)
(* state store (src/src/inbox-state.ts) and the send / inbox pull / inbox  *)
(* watch commands (src/src/index.ts).                                      *)
(*                                                                         *)
(* Strings are sequences of one-character strings, so that trimming,       *)
(* splitting, joining, normalising and substring tests are computed and    *)
(* not assumed.  An optional value (undefined / null / SQL NULL) is a      *)
(* sequence of length 0 or 1.  Scores are exact rationals <<num, den>>.    *)
(***************************************************************************)
EXTENDS Integers, Sequences, FiniteSets, TLC

VARIABLES
    db,        \* the sqlite file: the three tables of InboxStateStore
    now,       \* wall clock read by new Date()
    hist,      \* the last HistLen calls made on the store, with their results
    ncalls,    \* number of calls made on the store so far
    inv,       \* the running inbox pull / inbox watch invocation
    out,       \* what the inbox commands have printed, per scope key and message
    kIn,       \* inputs of the scope-key computation
    kOut,      \* its results
    rIn,       \* inputs of rankContacts / resolveContacts
    rOut,      \* their results
    snd,       \* the running send command
    cIn,       \* inputs of computeNextSinceCursor
    cOut,      \* its result
    pg,        \* the running collectPagedMessages call
    procs      \* two inbox invocations running at the same time

vars == <<db, now, hist, ncalls, inv, out, kIn, kOut, rIn, rOut, snd, cIn, cOut, pg, procs>>
inboxVars == <<inv, out>>
auxVars == <<cIn, cOut, pg, procs>>
pureVars == <<kIn, kOut, rIn, rOut, snd, auxVars>>

(***************************************************************************)
(* Bounds                                                                  *)
(***************************************************************************)
HistLen == 3
MaxNow == 1
MaxCalls == 4
MaxChatIds == 3
MaxPool == 2
MaxChats == 2
MaxRuns == 2
MaxPolls == 2
MaxBatch == 2

(***************************************************************************)
(* Optional values and strings                                             *)
(***************************************************************************)
None == <<>>
Some(v) == <<v>>
IsSome(o) == Len(o) > 0
Val(o) == o[1]

Range(q) == {q[i] : i \in 1..Len(q)}
Last(s) == s[Len(s)]
Front(s) == SubSeq(s, 1, Len(s) - 1)

RECURSIVE TrimLeft(_)
TrimLeft(s) ==
    IF Len(s) > 0 /\ Head(s) = " " THEN TrimLeft(Tail(s)) ELSE s

RECURSIVE TrimRight(_)
TrimRight(s) ==
    IF Len(s) > 0 /\ Last(s) = " " THEN TrimRight(Front(s)) ELSE s

Trim(s) == TrimRight(TrimLeft(s))

RECURSIVE Join(_, _)
Join(list, sep) ==
    IF Len(list) = 0 THEN <<>>
    ELSE IF Len(list) = 1 THEN list[1]
    ELSE list[1] \o sep \o Join(Tail(list), sep)

\* String.prototype.split on a one-character separator
RECURSIVE SplitAcc(_, _, _)
SplitAcc(s, sep, cur) ==
    IF Len(s) = 0 THEN <<cur>>
    ELSE IF Head(s) = sep THEN <<cur>> \o SplitAcc(Tail(s), sep, <<>>)
    ELSE SplitAcc(Tail(s), sep, Append(cur, Head(s)))

Split(s, sep) == SplitAcc(s, sep, <<>>)

NonEmpty(s) == Len(s) > 0

\* Array.from(new Set(list)): first occurrences, in insertion order
RECURSIVE Dedupe(_)
Dedupe(list) ==
    IF Len(list) = 0 THEN <<>>
    ELSE LET rest == Dedupe(Front(list))
         IN  IF \E i \in 1..Len(rest) : rest[i] = Last(list)
             THEN rest ELSE Append(rest, Last(list))

\* Primary collation weight of a character.  The Kelvin sign U+212A is
\* canonically equivalent to the letter K and collates equal to it.
Rank(c) ==
    CASE c = " " -> 1
      [] c = "*" -> 2
      [] c = "," -> 3
      [] c = ":" -> 4
      [] c = "=" -> 5
      [] c = "|" -> 6
      [] c = "1" -> 11
      [] c = "2" -> 12
      [] c = "a" -> 21
      [] c = "b" -> 22
      [] c = "c" -> 23
      [] c = "K" -> 30
      [] c = "U+212A" -> 30
      [] OTHER -> 40

\* String.prototype.localeCompare: negative, zero or positive
RECURSIVE localeCompare(_, _)
localeCompare(left, right) ==
    IF Len(left) = 0 /\ Len(right) = 0 THEN 0
    ELSE IF Len(left) = 0 THEN -1
    ELSE IF Len(right) = 0 THEN 1
    ELSE IF Rank(Head(left)) < Rank(Head(right)) THEN -1
    ELSE IF Rank(Head(left)) > Rank(Head(right)) THEN 1
    ELSE localeCompare(Tail(left), Tail(right))

\* Array.prototype.sort with localeCompare: stable, ascending
RECURSIVE InsertSorted(_, _)
InsertSorted(sorted, x) ==
    IF Len(sorted) = 0 THEN <<x>>
    ELSE IF localeCompare(Last(sorted), x) <= 0 THEN Append(sorted, x)
    ELSE Append(InsertSorted(Front(sorted), x), Last(sorted))

RECURSIVE SortLocale(_)
SortLocale(list) ==
    IF Len(list) = 0 THEN <<>>
    ELSE InsertSorted(SortLocale(Front(list)), Last(list))

(***************************************************************************)
(* Scope keys: src/src/inbox-state.ts, src/src/index.ts                    *)
(***************************************************************************)
parseCsvList(value) ==
    IF ~IsSome(value) \/ Len(Val(value)) = 0 THEN <<>>
    ELSE LET parts == Split(Val(value), ",")
             trimmed == [i \in 1..Len(parts) |-> Trim(parts[i])]
         IN  SelectSeq(trimmed, NonEmpty)

normalizeChatIds(chatIds) ==
    LET trimmed == [i \in 1..Len(chatIds) |-> Trim(chatIds[i])]
    IN  SortLocale(Dedupe(SelectSeq(trimmed, NonEmpty)))

\* flags: [chatId, senderId] as optional strings
parseInboxQueryScope(flags) ==
    LET sender == IF IsSome(flags.senderId) THEN Some(Trim(Val(flags.senderId))) ELSE None
    IN  [chatIds  |-> normalizeChatIds(parseCsvList(flags.chatId)),
         senderId |-> IF IsSome(sender) /\ Len(Val(sender)) > 0 THEN sender ELSE None]

buildInboxScopeKey(scope) ==
    LET custom == IF IsSome(scope.customStateKey)
                  THEN Some(Trim(Val(scope.customStateKey))) ELSE None
        chatScope == IF Len(scope.chatIds) > 0
                     THEN Join(scope.chatIds, <<",">>) ELSE <<"*">>
        senderTrim == IF IsSome(scope.senderId) THEN Trim(Val(scope.senderId)) ELSE <<>>
        senderScope == IF Len(senderTrim) > 0 THEN senderTrim ELSE <<"*">>
    IN  IF IsSome(custom) /\ Len(Val(custom)) > 0
        THEN scope.profileName \o <<"|">> \o Val(custom)
        ELSE scope.profileName \o <<"|">> \o scope.accountId
               \o <<"|", "c", "h", "a", "t", "=">> \o chatScope
               \o <<"|", "s", "e", "n", "d", "e", "r", "=">> \o senderScope

(***************************************************************************)
(* The state store: src/src/inbox-state.ts                                 *)
(***************************************************************************)
\* CREATE TABLE IF NOT EXISTS on a new file
EmptyDb ==
    [watch_scope_state   |-> {},
     inbox_message_store |-> {},
     scope_message_seen  |-> {}]

\* selectCursorStmt + getCursor: row?.since_cursor ?? null
getCursor(d, scopeKey) ==
    LET rows == {r \in d.watch_scope_state : r.scope_key = scopeKey}
    IN  IF rows = {} THEN None ELSE (CHOOSE r \in rows : TRUE).since_cursor

\* upsertScopeStmt: INSERT ... ON CONFLICT(scope_key) DO UPDATE
upsertScopeState(d, args, at) ==
    LET row == [scope_key    |-> args.scopeKey,
                profile_name |-> args.profileName,
                account_id   |-> args.accountId,
                chat_ids     |-> args.chatIds,
                sender_id    |-> args.senderId,
                since_cursor |-> args.sinceCursor,
                updated_at   |-> at]
        conflict == \E r \in d.watch_scope_state : r.scope_key = args.scopeKey
    IN  [d EXCEPT !.watch_scope_state =
            IF conflict
            THEN {IF r.scope_key = args.scopeKey THEN row ELSE r : r \in @}
            ELSE @ \cup {row}]

\* a DELETE FROM scope_message_seen that lost its WHERE clause
deleteScopeSeen_AllScopes(d, scopeKey) ==
    [d EXCEPT !.scope_message_seen = {}]

\* deleteScopeSeenStmt
deleteScopeSeen(d, scopeKey) ==
    [d EXCEPT !.scope_message_seen = {s \in @ : s.scope_key # scopeKey}]

\* deleteScopeStmt
deleteScope(d, scopeKey) ==
    [d EXCEPT !.watch_scope_state = {r \in @ : r.scope_key # scopeKey}]

\* only the cursor row is deleted, the seen marks stay
resetScope_CursorOnly(d, scopeKey) == deleteScope(d, scopeKey)

resetScope(d, scopeKey) == deleteScope(deleteScopeSeen(d, scopeKey), scopeKey)

\* INSERT OR REPLACE in place of INSERT OR IGNORE: the row is rewritten and counted
insertMessage_Replace(d, message, at) ==
    LET row == [account_id    |-> message.account_id,
                message_id    |-> message.id,
                chat_id       |-> message.chat_id,
                sender_id     |-> message.sender_id,
                timestamp     |-> message.timestamp,
                payload_json  |-> message,
                first_seen_at |-> at,
                last_seen_at  |-> at]
        others == {r \in d.inbox_message_store :
                     ~(r.account_id = message.account_id /\ r.message_id = message.id)}
    IN  [db      |-> [d EXCEPT !.inbox_message_store = others \cup {row}],
         changes |-> 1]

\* insertMessageStmt: INSERT OR IGNORE, primary key (account_id, message_id)
insertMessage(d, message, at) ==
    LET conflict == \E r \in d.inbox_message_store :
                        r.account_id = message.account_id /\ r.message_id = message.id
        row == [account_id    |-> message.account_id,
                message_id    |-> message.id,
                chat_id       |-> message.chat_id,
                sender_id     |-> message.sender_id,
                timestamp     |-> message.timestamp,
                payload_json  |-> message,
                first_seen_at |-> at,
                last_seen_at  |-> at]
    IN  [db      |-> IF conflict THEN d
                     ELSE [d EXCEPT !.inbox_message_store = @ \cup {row}],
         changes |-> IF conflict THEN 0 ELSE 1]

\* an update statement that matches no row
updateMessage_KeepsPayload(d, message, at) == d

\* updateMessageStmt: UPDATE ... WHERE account_id = ? AND message_id = ?
updateMessage(d, message, at) ==
    [d EXCEPT !.inbox_message_store =
        {IF r.account_id = message.account_id /\ r.message_id = message.id
         THEN [r EXCEPT !.chat_id = message.chat_id,
                        !.sender_id = message.sender_id,
                        !.timestamp = message.timestamp,
                        !.payload_json = message,
                        !.last_seen_at = at]
         ELSE r : r \in @}]

\* a seen table whose primary key forgot scope_key
insertScopeSeen_NoScopeInKey(d, scopeKey, message, at) ==
    LET conflict == \E s \in d.scope_message_seen :
                        /\ s.account_id = message.account_id
                        /\ s.message_id = message.id
        row == [scope_key  |-> scopeKey,
                account_id |-> message.account_id,
                message_id |-> message.id,
                seen_at    |-> at]
    IN  [db      |-> IF conflict THEN d
                     ELSE [d EXCEPT !.scope_message_seen = @ \cup {row}],
         changes |-> IF conflict THEN 0 ELSE 1]

\* INSERT OR REPLACE in place of INSERT OR IGNORE: the mark is rewritten and counted
insertScopeSeen_Replace(d, scopeKey, message, at) ==
    LET row == [scope_key  |-> scopeKey,
                account_id |-> message.account_id,
                message_id |-> message.id,
                seen_at    |-> at]
        others == {s \in d.scope_message_seen :
                     ~(/\ s.scope_key = scopeKey
                       /\ s.account_id = message.account_id
                       /\ s.message_id = message.id)}
    IN  [db      |-> [d EXCEPT !.scope_message_seen = others \cup {row}],
         changes |-> 1]

\* insertScopeSeenStmt: INSERT OR IGNORE, primary key (scope_key, account_id, message_id)
insertScopeSeen(d, scopeKey, message, at) ==
    LET conflict == \E s \in d.scope_message_seen :
                        /\ s.scope_key = scopeKey
                        /\ s.account_id = message.account_id
                        /\ s.message_id = message.id
        row == [scope_key  |-> scopeKey,
                account_id |-> message.account_id,
                message_id |-> message.id,
                seen_at    |-> at]
    IN  [db      |-> IF conflict THEN d
                     ELSE [d EXCEPT !.scope_message_seen = @ \cup {row}],
         changes |-> IF conflict THEN 0 ELSE 1]

persistMessage(d, scopeKey, message, at) ==
    LET insertedMessage == insertMessage(d, message, at)
        isNewInStore == insertedMessage.changes > 0
        d1 == IF ~isNewInStore THEN updateMessage(insertedMessage.db, message, at)
              ELSE insertedMessage.db
        insertedSeen == insertScopeSeen(d1, scopeKey, message, at)
    IN  [db     |-> insertedSeen.db,
         result |-> [isNewForScope |-> insertedSeen.changes > 0,
                     isNewInStore  |-> isNewInStore]]

(***************************************************************************)
(* Inputs of the store and of the inbox commands                           *)
(***************************************************************************)
Profile == <<"p">>
AccountA == <<"A">>

Iso(ms) == [kind |-> "iso", ms |-> ms]

Message(id, ts, text) ==
    [id         |-> id,
     account_id |-> AccountA,
     chat_id    |-> <<"a">>,
     sender_id  |-> <<"s">>,
     text       |-> text,
     timestamp  |-> ts]

\* message 1 is known to the provider with two texts (it was edited)
MessagePool ==
    {Message(<<"1">>, Some(Iso(1000)), <<"x">>),
     Message(<<"1">>, Some(Iso(1000)), <<"y">>),
     Message(<<"2">>, Some(Iso(3000)), <<"x">>)}

PairOf(message) == <<message.account_id, message.id>>
Pairs == {PairOf(m) : m \in MessagePool}

\* inbox pull/watch --chat-id and --state-key flag values
ScopeFlags ==
    {[chatId |-> None, senderId |-> None, customStateKey |-> None],
     [chatId |-> Some(<<"a">>), senderId |-> None, customStateKey |-> None]}

\* the descriptor commandInboxPull / commandInboxWatch pass to buildInboxScopeKey
ScopeDescriptor(f) ==
    [profileName    |-> Profile,
     accountId      |-> AccountA,
     chatIds        |-> parseInboxQueryScope(f).chatIds,
     senderId       |-> parseInboxQueryScope(f).senderId,
     customStateKey |-> IF IsSome(f.customStateKey) /\ Len(Trim(Val(f.customStateKey))) > 0
                        THEN Some(Trim(Val(f.customStateKey))) ELSE None]

ScopeKeys == {buildInboxScopeKey(ScopeDescriptor(f)) : f \in ScopeFlags}

UpsertArgs(f, cursor) ==
    [scopeKey    |-> buildInboxScopeKey(ScopeDescriptor(f)),
     profileName |-> Profile,
     accountId   |-> AccountA,
     chatIds     |-> ScopeDescriptor(f).chatIds,
     senderId    |-> ScopeDescriptor(f).senderId,
     sinceCursor |-> cursor]

(***************************************************************************)
(* Calls on the store, one at a time                                       *)
(***************************************************************************)
Push(h, e) == IF Len(h) < HistLen THEN Append(h, e) ELSE Append(Tail(h), e)

IdleInv == [pc |-> "idle", run |-> 0]
IdleOut == [once |-> {}, twice |-> {}, reset |-> {}, last |-> None]
IdleSend == [pc |-> "idle"]
IdlePages == [pc |-> "idle"]
IdleProcs == <<>>

AuxIdle ==
    /\ cIn = None
    /\ cOut = None
    /\ pg = IdlePages
    /\ procs = IdleProcs

OthersIdle ==
    /\ AuxIdle
    /\ inv = IdleInv
    /\ out = IdleOut
    /\ kIn = None
    /\ kOut = None
    /\ rIn = None
    /\ rOut = None
    /\ snd = IdleSend

StoreInit ==
    /\ db = EmptyDb
    /\ now = 0
    /\ hist = <<>>
    /\ ncalls = 0
    /\ OthersIdle

Tick ==
    /\ now < MaxNow
    /\ now' = now + 1
    /\ UNCHANGED <<db, hist, ncalls, inboxVars, pureVars>>

Called ==
    /\ ncalls < MaxCalls
    /\ ncalls' = ncalls + 1

StorePersist(k, m) ==
    LET r == persistMessage(db, k, m, now)
    IN  /\ Called
        /\ db' = r.db
        /\ hist' = Push(hist, [op |-> "persistMessage", key |-> k, msg |-> m,
                               res |-> r.result])
        /\ UNCHANGED <<now, inboxVars, pureVars>>

StoreUpsert(f, c) ==
    /\ Called
    /\ db' = upsertScopeState(db, UpsertArgs(f, c), now)
    /\ hist' = Push(hist, [op |-> "upsertScopeState",
                           key |-> buildInboxScopeKey(ScopeDescriptor(f))])
    /\ UNCHANGED <<now, inboxVars, pureVars>>

StoreReset(k) ==
    /\ Called
    /\ db' = resetScope(db, k)
    /\ hist' = Push(hist,
         [op |-> "resetScope", key |-> k,
          deleted |-> {<<s.account_id, s.message_id>> :
                         s \in {x \in db.scope_message_seen : x.scope_key = k}},
          hadCursor |-> IsSome(getCursor(db, k))])
    /\ UNCHANGED <<now, inboxVars, pureVars>>

StoreGetCursor(k) ==
    /\ Called
    /\ hist' = Push(hist, [op |-> "getCursor", key |-> k, res |-> getCursor(db, k)])
    /\ UNCHANGED <<db, now, inboxVars, pureVars>>

StoreNext ==
    \/ Tick
    \/ \E k \in ScopeKeys, m \in MessagePool : StorePersist(k, m)
    \/ \E f \in ScopeFlags, c \in {None, Some(Iso(0))} : StoreUpsert(f, c)
    \/ \E k \in ScopeKeys : StoreReset(k)
    \/ \E k \in ScopeKeys : StoreGetCursor(k)

SpecStore == StoreInit /\ [][StoreNext]_vars

(***************************************************************************)
(* Properties of the store (SpecStore)                                     *)
(***************************************************************************)
IsPersist(c) == c.op = "persistMessage"
IsReset(c) == c.op = "resetScope"

ArchiveRowsOf(pair) ==
    {r \in db.inbox_message_store : <<r.account_id, r.message_id>> = pair}

SeenRowsOf(k, pair) ==
    {s \in db.scope_message_seen :
        s.scope_key = k /\ <<s.account_id, s.message_id>> = pair}

\* C7: persistMessage(k, m) called twice in a row with the same message and the
\* same scope key returns isNewInStore = false and isNewForScope = false the
\* second time, and leaves exactly one archive row and one seen-mark for them.
C7_PersistTwice ==
    \A i \in 1..(Len(hist) - 1) :
        ( /\ IsPersist(hist[i]) /\ IsPersist(hist[i + 1])
          /\ hist[i].key = hist[i + 1].key
          /\ hist[i].msg = hist[i + 1].msg )
        => /\ hist[i + 1].res = [isNewForScope |-> FALSE, isNewInStore |-> FALSE]
           /\ (i + 1 = Len(hist)) =>
                /\ Cardinality(ArchiveRowsOf(PairOf(hist[i].msg))) = 1
                /\ Cardinality(SeenRowsOf(hist[i].key, PairOf(hist[i].msg))) = 1

\* the second of two identical calls has just returned, in a store that holds
\* rows of another message as well
C7_Witness ==
    /\ Len(hist) = 3
    /\ IsPersist(hist[1]) /\ IsPersist(hist[2]) /\ IsPersist(hist[3])
    /\ PairOf(hist[1].msg) # PairOf(hist[2].msg)
    /\ hist[2].key = hist[3].key
    /\ hist[2].msg = hist[3].msg

\* the calls strictly between positions i and j are persistMessage calls for
\* other messages
OnlyOtherMessagesBetween(i, j) ==
    \A x \in (i + 1)..(j - 1) :
        IsPersist(hist[x]) /\ PairOf(hist[x].msg) # PairOf(hist[i].msg)

\* C8: for a message not yet in the archive and two distinct scope keys A and
\* B, persistMessage(A, m) followed by persistMessage(B, m), with only
\* persistMessage calls for other messages in between, returns isNewForScope =
\* true for both calls and isNewInStore = true only for the first one.
C8_TwoScopes ==
    \A i \in 1..Len(hist) : \A j \in (i + 1)..Len(hist) :
        ( /\ IsPersist(hist[i]) /\ IsPersist(hist[j])
          /\ hist[i].res.isNewInStore
          /\ PairOf(hist[i].msg) = PairOf(hist[j].msg)
          /\ hist[i].key # hist[j].key
          /\ OnlyOtherMessagesBetween(i, j) )
        => /\ hist[i].res.isNewForScope
           /\ hist[j].res = [isNewForScope |-> TRUE, isNewInStore |-> FALSE]

\* A, another message, B
C8_Witness ==
    /\ Len(hist) = 3
    /\ IsPersist(hist[1]) /\ IsPersist(hist[2]) /\ IsPersist(hist[3])
    /\ hist[1].res.isNewInStore
    /\ PairOf(hist[2].msg) # PairOf(hist[1].msg)
    /\ PairOf(hist[3].msg) = PairOf(hist[1].msg)
    /\ hist[3].key # hist[1].key

AtMostOneArchiveRow ==
    \A r \in db.inbox_message_store : \A q \in db.inbox_message_store :
        (r.account_id = q.account_id /\ r.message_id = q.message_id) => r = q

\* the call just made was persistMessage for the pair
PersistedNow(pair) ==
    /\ ncalls' # ncalls
    /\ IsPersist(Last(hist'))
    /\ PairOf(Last(hist').msg) = pair

ArchiveStep ==
    /\ \A r \in db.inbox_message_store :
          \E q \in db'.inbox_message_store :
              /\ q.account_id = r.account_id /\ q.message_id = r.message_id
              /\ q.first_seen_at = r.first_seen_at
              /\ q = r \/ PersistedNow(<<r.account_id, r.message_id>>)
    /\ (ncalls' # ncalls /\ IsPersist(Last(hist'))) =>
          \E q \in db'.inbox_message_store :
              /\ <<q.account_id, q.message_id>> = PairOf(Last(hist').msg)
              /\ q.payload_json = Last(hist').msg
              /\ q.last_seen_at = now

\* C24: the archive holds at most one row per (accountId, messageId); over
\* any sequence of persistMessage and resetScope calls from any scopes a row's
\* first_seen_at never changes, its payload and last_seen_at are those of the
\* latest observation, and no row is ever deleted.
C24_ArchiveRows ==
    /\ []AtMostOneArchiveRow
    /\ [][ArchiveStep]_vars

\* a row first seen earlier has been observed again with another payload,
\* after the scope that had seen it was reset
C24_Witness ==
    /\ Len(hist) = HistLen
    /\ IsPersist(hist[1]) /\ IsReset(hist[2]) /\ IsPersist(hist[3])
    /\ PairOf(hist[1].msg) = PairOf(hist[3].msg)
    /\ hist[1].msg # hist[3].msg
    /\ PairOf(hist[1].msg) \in hist[2].deleted
    /\ \E r \in db.inbox_message_store :
          /\ r.payload_json = hist[3].msg
          /\ r.first_seen_at < r.last_seen_at

ResetFrame(k) ==
    StoreReset(k) =>
        /\ db'.inbox_message_store = db.inbox_message_store
        /\ db'.scope_message_seen = {s \in db.scope_message_seen : s.scope_key # k}
        /\ db'.watch_scope_state = {r \in db.watch_scope_state : r.scope_key # k}
        /\ getCursor(db', k) = None

AfterReset ==
    \A i \in 1..(Len(hist) - 1) :
        IsReset(hist[i]) /\ hist[i + 1].key = hist[i].key =>
            /\ hist[i + 1].op = "getCursor" => hist[i + 1].res = None
            /\ ( IsPersist(hist[i + 1]) /\ PairOf(hist[i + 1].msg) \in hist[i].deleted )
                 => hist[i + 1].res = [isNewForScope |-> TRUE, isNewInStore |-> FALSE]

\* C10: resetScope(k) deletes the cursor row of k and every seen-mark of k and
\* leaves every archive row and the rows of every other scope key unchanged;
\* right after it getCursor(k) returns null and persistMessage(k, m) for a
\* previously delivered m returns isNewForScope = true, isNewInStore = false.
C10_ResetScope ==
    [][(\A k \in ScopeKeys : ResetFrame(k)) /\ AfterReset']_vars

\* a message delivered to two scopes, one of them reset and the message
\* persisted again for it
C10_Witness ==
    /\ Len(hist) = 3
    /\ IsPersist(hist[1]) /\ IsReset(hist[2]) /\ IsPersist(hist[3])
    /\ hist[1].key # hist[2].key
    /\ hist[3].key = hist[2].key
    /\ PairOf(hist[3].msg) \in hist[2].deleted
    /\ SeenRowsOf(hist[1].key, PairOf(hist[3].msg)) # {}

(***************************************************************************)
(* Exact arithmetic on scores: <<numerator, denominator>>, denominator > 0 *)
(***************************************************************************)
RECURSIVE GCD(_, _)
GCD(a, b) == IF b = 0 THEN a ELSE GCD(b, a % b)

Abs(n) == IF n < 0 THEN -n ELSE n

Rat(n, d) ==
    LET g == GCD(Abs(n), d)
    IN  IF n = 0 THEN <<0, 1>> ELSE <<n \div g, d \div g>>

RAdd(x, y) == Rat(x[1] * y[2] + y[1] * x[2], x[2] * y[2])
RSub(x, y) == Rat(x[1] * y[2] - y[1] * x[2], x[2] * y[2])
RMul(x, y) == Rat(x[1] * y[1], x[2] * y[2])
\* y > 0
RDiv(x, y) == Rat(x[1] * y[2], x[2] * y[1])
RLe(x, y) == x[1] * y[2] <= y[1] * x[2]
RLt(x, y) == x[1] * y[2] < y[1] * x[2]
RGe(x, y) == RLe(y, x)
RMax(x, y) == IF RLe(x, y) THEN y ELSE x

Zero == <<0, 1>>
One == <<1, 1>>

(***************************************************************************)
(* Recipient resolution: src/src/resolver.ts                               *)
(***************************************************************************)
DEFAULT_THRESHOLD == <<9, 10>>
DEFAULT_MARGIN == <<3, 20>>
DEFAULT_MAX_CANDIDATES == 5

\* String.prototype.toLowerCase, one character
LowerChar(c) ==
    CASE c = "A" -> "a"
      [] c = "B" -> "b"
      [] c = "P" -> "p"
      [] OTHER -> c

\* NFKD of one character: an accented letter becomes letter + combining mark
Decompose(c) ==
    IF c = "U+00E9" THEN <<"e", "U+0301">> ELSE <<c>>

LowerAlnum ==
    {"a", "b", "c", "e", "i", "p", "s", "x",
     "0", "1", "2", "3", "4", "5", "6", "7", "8", "9"}

RECURSIVE FlatMapDecompose(_)
FlatMapDecompose(str) ==
    IF Len(str) = 0 THEN <<>> ELSE Decompose(Head(str)) \o FlatMapDecompose(Tail(str))

\* replace(/\s+/g, " ")
RECURSIVE CollapseSpaces(_)
CollapseSpaces(str) ==
    IF Len(str) < 2 THEN str
    ELSE IF str[1] = " " /\ str[2] = " " THEN CollapseSpaces(Tail(str))
    ELSE <<Head(str)>> \o CollapseSpaces(Tail(str))

normalize(value) ==
    LET lower == [i \in 1..Len(value) |-> LowerChar(value[i])]
        nfkd == FlatMapDecompose(lower)
        stripped == [i \in 1..Len(nfkd) |->
                        IF nfkd[i] \in LowerAlnum \/ nfkd[i] = " " THEN nfkd[i] ELSE " "]
    IN  Trim(CollapseSpaces(stripped))

tokenize(value) ==
    LET cleaned == normalize(value)
    IN  IF Len(cleaned) > 0 THEN Split(cleaned, " ") ELSE <<>>

\* String.prototype.includes
includes(hay, needle) ==
    \E i \in 0..(Len(hay) - Len(needle)) : SubSeq(hay, i + 1, i + Len(needle)) = needle

\* queryTokens.filter((token) => nameTokenSet.has(token)).length
CountIn(tokens, set) == Cardinality({i \in 1..Len(tokens) : tokens[i] \in set})

lexicalScore(query, attendee) ==
    LET queryNorm == normalize(query)
        nameNorm == normalize(attendee.name)
        attendeeIdNorm == normalize(attendee.id)
        providerIdNorm == normalize(attendee.provider_id)
        queryTokens == tokenize(query)
        nameTokens == tokenize(attendee.name)
        overlapCount == CountIn(queryTokens, Range(nameTokens))
        recall == Rat(overlapCount, Len(queryTokens))
        precision == Rat(overlapCount, Len(nameTokens))
        overlapScore == RDiv(RMul(<<2, 1>>, RMul(recall, precision)), RAdd(recall, precision))
    IN  IF Len(queryNorm) = 0 THEN [score |-> Zero, matchedBy |-> <<>>]
        ELSE IF queryNorm = attendeeIdNorm \/ queryNorm = providerIdNorm
        THEN [score |-> One, matchedBy |-> <<"exact_id">>]
        ELSE IF includes(providerIdNorm, queryNorm)
        THEN [score |-> <<19, 20>>, matchedBy |-> <<"provider_id_contains">>]
        ELSE IF nameNorm = queryNorm
        THEN [score |-> <<47, 50>>, matchedBy |-> <<"exact_name">>]
        ELSE IF includes(nameNorm, queryNorm)
        THEN [score |-> <<9, 10>>, matchedBy |-> <<"name_contains">>]
        ELSE IF Len(queryTokens) = 0 \/ Len(nameTokens) = 0
        THEN [score |-> Zero, matchedBy |-> <<>>]
        ELSE IF overlapCount = 0
        THEN [score |-> Zero, matchedBy |-> <<>>]
        ELSE [score |-> RMul(overlapScore, <<22, 25>>), matchedBy |-> <<"token_overlap">>]

\* Date.parse of a timestamp string; NaN is None
DateParse(str) == IF str.kind \in {"bad", "blank"} THEN None ELSE Some(str.ms)

MapSet(m, k, v) == [x \in DOMAIN m \cup {k} |-> IF x = k THEN v ELSE m[x]]

\* the first loop of buildRecencyScoreByProviderId
RECURSIVE RawRecency(_)
RawRecency(chats) ==
    IF Len(chats) = 0 THEN <<>>
    ELSE LET rawMap == RawRecency(Front(chats))
             chat == Last(chats)
             providerId == chat.attendee_provider_id
             timestamp == IF IsSome(chat.timestamp) THEN DateParse(Val(chat.timestamp)) ELSE None
         IN  IF ~IsSome(providerId) \/ Len(Val(providerId)) = 0 THEN rawMap
             ELSE IF ~IsSome(timestamp) THEN rawMap
             ELSE IF \/ Val(providerId) \notin DOMAIN rawMap
                     \/ rawMap[Val(providerId)] = 0
                     \/ Val(timestamp) > rawMap[Val(providerId)]
                  THEN MapSet(rawMap, Val(providerId), Val(timestamp))
                  ELSE rawMap

MinOf(S) == CHOOSE x \in S : \A y \in S : x <= y
MaxOf(S) == CHOOSE x \in S : \A y \in S : x >= y

buildRecencyScoreByProviderId(chats) ==
    LET rawMap == RawRecency(chats)
        values == {rawMap[k] : k \in DOMAIN rawMap}
    IN  IF DOMAIN rawMap = {} THEN <<>>
        ELSE [k \in DOMAIN rawMap |->
                IF MaxOf(values) = MinOf(values) THEN <<1, 2>>
                ELSE Rat(rawMap[k] - MinOf(values), MaxOf(values) - MinOf(values))]

\* the value one hit contributes to best
HitBoost(attendee, hit) ==
    LET name == normalize(attendee.name)
        providerId == normalize(attendee.provider_id)
        haystack == normalize(hit.text \o <<" ">> \o (IF IsSome(hit.source) THEN Val(hit.source) ELSE <<>>))
        nameTokens == tokenize(attendee.name)
        overlap == Cardinality({i \in 1..Len(nameTokens) : includes(haystack, nameTokens[i])})
    IN  IF Len(providerId) > 0 /\ includes(haystack, providerId) THEN One
        ELSE IF Len(name) > 0 /\ includes(haystack, name) THEN <<4, 5>>
        ELSE IF Len(nameTokens) > 0 THEN RMul(Rat(overlap, Len(nameTokens)), <<3, 5>>)
        ELSE Zero

RECURSIVE BestBoost(_, _)
BestBoost(attendee, hits) ==
    IF Len(hits) = 0 THEN Zero
    ELSE RMax(BestBoost(attendee, Front(hits)), HitBoost(attendee, Last(hits)))

qmdBoost(attendee, qmdResult) ==
    IF ~qmdResult.available \/ Len(qmdResult.hits) = 0 THEN Zero
    ELSE BestBoost(attendee, qmdResult.hits)

\* ascending order: the comparator with its operands swapped
RECURSIVE InsertByTotal_Ascending(_, _)
InsertByTotal_Ascending(sorted, x) ==
    IF Len(sorted) = 0 THEN <<x>>
    ELSE IF RLe(Last(sorted).totalScore, x.totalScore) THEN Append(sorted, x)
    ELSE Append(InsertByTotal_Ascending(Front(sorted), x), Last(sorted))

\* a sort that puts a candidate before the earlier candidates of equal total
RECURSIVE InsertByTotal_TiesReversed(_, _)
InsertByTotal_TiesReversed(sorted, x) ==
    IF Len(sorted) = 0 THEN <<x>>
    ELSE IF RLt(x.totalScore, Last(sorted).totalScore) THEN Append(sorted, x)
    ELSE Append(InsertByTotal_TiesReversed(Front(sorted), x), Last(sorted))

\* .sort((left, right) => right.totalScore - left.totalScore): stable, descending
RECURSIVE InsertByTotal(_, _)
InsertByTotal(sorted, x) ==
    IF Len(sorted) = 0 THEN <<x>>
    ELSE IF RGe(Last(sorted).totalScore, x.totalScore) THEN Append(sorted, x)
    ELSE Append(InsertByTotal(Front(sorted), x), Last(sorted))

RECURSIVE SortByTotal(_)
SortByTotal(list) ==
    IF Len(list) = 0 THEN <<>>
    ELSE InsertByTotal(SortByTotal(Front(list)), Last(list))

NotSelf_KeepAll(attendee) == TRUE

NotSelf(attendee) == attendee.is_self # 1

\* the weights of the lexical and the recency signal exchanged
totalScoreOf_SwappedWeights(lexical, recency, qmd) ==
    RAdd(RAdd(RMul(lexical, <<3, 20>>), RMul(recency, <<3, 4>>)), RMul(qmd, <<1, 10>>))

\* lexical.score * 0.75 + recencyScore * 0.15 + qmdScore * 0.1
totalScoreOf(lexical, recency, qmd) ==
    RAdd(RAdd(RMul(lexical, <<3, 4>>), RMul(recency, <<3, 20>>)), RMul(qmd, <<1, 10>>))

\* the .map callback of rankContacts
ScoreAttendee(query, attendee, recencyByProviderId, qmdResult) ==
    LET lexical == lexicalScore(query, attendee)
        recencyScore == IF attendee.provider_id \in DOMAIN recencyByProviderId
                        THEN recencyByProviderId[attendee.provider_id] ELSE Zero
        qmdScore == qmdBoost(attendee, qmdResult)
        totalScore == totalScoreOf(lexical.score, recencyScore, qmdScore)
    IN  [attendee     |-> attendee,
         lexicalScore |-> lexical.score,
         recencyScore |-> recencyScore,
         qmdScore     |-> qmdScore,
         totalScore   |-> totalScore,
         matchedBy    |-> lexical.matchedBy
                            \o (IF RGe(recencyScore, <<13, 20>>) THEN <<"recent_chat">> ELSE <<>>)
                            \o (IF RGe(qmdScore, <<1, 2>>) THEN <<"qmd_context">> ELSE <<>>)]

rankContacts(query, attendees, chats, qmdResult) ==
    LET recencyByProviderId == buildRecencyScoreByProviderId(chats)
        kept == SelectSeq(attendees, NotSelf)
    IN  SortByTotal([i \in 1..Len(kept) |->
                        ScoreAttendee(query, kept[i], recencyByProviderId, qmdResult)])

\* Array.prototype.slice(0, n) for n >= 0
Slice0(list, n) == SubSeq(list, 1, IF n < Len(list) THEN n ELSE Len(list))

\* the three returns of resolveContacts, for the ranked and sliced candidates
Decide(query, ranked, threshold, margin) ==
    LET delta == IF Len(ranked) >= 2 THEN RSub(ranked[1].totalScore, ranked[2].totalScore)
                 ELSE ranked[1].totalScore
        base == [query |-> query, candidates |-> ranked, threshold |-> threshold, margin |-> margin]
    IN  IF Len(ranked) = 0 \/ RLt(ranked[1].totalScore, <<7, 20>>)
        THEN [status |-> "not_found", selected |-> None] @@ base
        ELSE IF RGe(ranked[1].totalScore, threshold) /\ RGe(delta, margin)
        THEN [status |-> "resolved", selected |-> Some(ranked[1])] @@ base
        ELSE [status |-> "ambiguous", selected |-> Some(ranked[1])] @@ base

\* options: [threshold, margin, maxCandidates], each optional
resolveContacts(query, attendees, chats, qmdResult, options) ==
    Decide(query,
           Slice0(rankContacts(query, attendees, chats, qmdResult),
                  IF IsSome(options.maxCandidates) THEN Val(options.maxCandidates)
                  ELSE DEFAULT_MAX_CANDIDATES),
           IF IsSome(options.threshold) THEN Val(options.threshold) ELSE DEFAULT_THRESHOLD,
           IF IsSome(options.margin) THEN Val(options.margin) ELSE DEFAULT_MARGIN)

(***************************************************************************)
(* Scope keys of two inbox invocations (SpecKey)                           *)
(***************************************************************************)
\* chat ids a user can type after --chat-id; the second is the string the
\* key uses for "no chat filter", the last two are different strings that
\* compare equal under localeCompare
ChatIdPool == {<<"a">>, <<"*">>, <<"K">>, <<"U+212A">>}

RECURSIVE SeqsUpTo(_, _)
SeqsUpTo(S, n) ==
    IF n = 0 THEN {<<>>}
    ELSE LET shorter == SeqsUpTo(S, n - 1)
         IN  shorter \cup {Append(q, x) : q \in shorter, x \in S}

\* the value of --chat-id for a list of ids
ChatIdFlag(ids) == IF Len(ids) = 0 THEN None ELSE Some(Join(ids, <<",">>))

ChatIdFlags == {ChatIdFlag(ids) : ids \in SeqsUpTo(ChatIdPool, MaxChatIds)}
SenderFlags == {None, Some(<<"s">>), Some(<<" ">>)}
StateKeyFlags == {None, Some(<<"k">>), Some(<<" ">>)}

StoreIdle ==
    /\ db = EmptyDb
    /\ now = 0
    /\ hist = <<>>
    /\ ncalls = 0

KeyInit ==
    /\ StoreIdle
    /\ AuxIdle
    /\ inv = IdleInv
    /\ out = IdleOut
    /\ rIn = None
    /\ rOut = None
    /\ snd = IdleSend
    /\ kOut = None
    /\ \E a \in ChatIdFlags, b \in ChatIdFlags, s \in SenderFlags, c \in StateKeyFlags :
          kIn = Some([left  |-> [chatId |-> a, senderId |-> s, customStateKey |-> c],
                      right |-> [chatId |-> b, senderId |-> s, customStateKey |-> c]])

KeyCompute ==
    /\ IsSome(kIn)
    /\ kOut = None
    /\ kOut' = Some([left     |-> ScopeDescriptor(Val(kIn).left),
                     right    |-> ScopeDescriptor(Val(kIn).right),
                     leftKey  |-> buildInboxScopeKey(ScopeDescriptor(Val(kIn).left)),
                     rightKey |-> buildInboxScopeKey(ScopeDescriptor(Val(kIn).right))])
    /\ UNCHANGED <<db, now, hist, ncalls, inboxVars, kIn, rIn, rOut, snd, auxVars>>

KeyNext == KeyCompute

SpecKey == KeyInit /\ [][KeyNext]_vars

\* C6: buildInboxScopeKey returns the same key for two scope descriptors with
\* equal profile name, account id, sender and custom state key whose chatIds
\* lists contain the same set of ids, whatever their order and multiplicity.
C6_SameKeyForSameIdSet ==
    ( /\ IsSome(kOut)
      /\ Val(kOut).left.profileName = Val(kOut).right.profileName
      /\ Val(kOut).left.accountId = Val(kOut).right.accountId
      /\ Val(kOut).left.senderId = Val(kOut).right.senderId
      /\ Val(kOut).left.customStateKey = Val(kOut).right.customStateKey
      /\ Range(Val(kOut).left.chatIds) = Range(Val(kOut).right.chatIds) )
    => Val(kOut).leftKey = Val(kOut).rightKey

\* C30: without a custom state key, two normalized descriptors that differ
\* in profile name, account id, chat-id set or sender filter (absent versus
\* present, or two values) never get the same key.
C30_ScopeKeyInjective ==
    ( /\ IsSome(kOut)
      /\ Val(kOut).left.customStateKey = None
      /\ Val(kOut).right.customStateKey = None
      /\ \/ Val(kOut).left.profileName # Val(kOut).right.profileName
         \/ Val(kOut).left.accountId # Val(kOut).right.accountId
         \/ Range(Val(kOut).left.chatIds) # Range(Val(kOut).right.chatIds)
         \/ Val(kOut).left.senderId # Val(kOut).right.senderId )
    => Val(kOut).leftKey # Val(kOut).rightKey

(***************************************************************************)
(* Calls of resolveContacts (SpecResolve)                                  *)
(***************************************************************************)
Attendee(id, providerId, name, isSelf) ==
    [id |-> id, provider_id |-> providerId, name |-> name, is_self |-> isSelf]

AttendeePool ==
    {Attendee(<<"i", "1">>, <<"P", "-", "1">>, <<"a", " ", "b">>, 0),
     Attendee(<<"i", "2">>, <<"p", "2">>, <<"a">>, 0),
     Attendee(<<"i", "3">>, <<"p", "3">>, <<"b", " ", "c">>, 0),
     Attendee(<<"i", "4">>, <<"p", "4">>, <<"a", " ", "b">>, 1)}

QueryPool ==
    {<<"a">>,
     <<"a", " ", "a", " ", "a">>,
     <<"p", " ", "1">>,
     <<"b", " ", "a">>,
     <<"p">>,
     <<"-">>}

Chat(id, providerId, ts) == [id |-> id, attendee_provider_id |-> providerId, timestamp |-> ts]

BadDate == [kind |-> "bad", ms |-> 0]

ChatPool ==
    {Chat(<<"c", "1">>, Some(<<"P", "-", "1">>), Some(Iso(2000))),
     Chat(<<"c", "2">>, Some(<<"p", "2">>), Some(Iso(1000))),
     Chat(<<"c", "3">>, Some(<<"P", "-", "1">>), Some(Iso(0))),
     Chat(<<"c", "4">>, Some(<<"p", "3">>), Some(BadDate)),
     Chat(<<"c", "5">>, None, Some(Iso(3000)))}

Hit(text) == [text |-> text, source |-> None]

QmdPool ==
    {[available |-> FALSE, hits |-> <<>>],
     [available |-> TRUE, hits |-> <<>>],
     [available |-> TRUE, hits |-> <<Hit(<<"p", "-", "1">>)>>],
     [available |-> TRUE, hits |-> <<Hit(<<"c">>), Hit(<<"a", " ", "x">>)>>]}

\* sequences without repetition
Distinct(q) == \A i \in 1..Len(q) : \A j \in 1..Len(q) : i # j => q[i] # q[j]
Pools == {q \in SeqsUpTo(AttendeePool, MaxPool) : Distinct(q)}

OptionPool ==
    [threshold     : {None, Some(One), Some(<<3, 4>>)},
     margin        : {None, Some(One)},
     maxCandidates : {None, Some(1), Some(2)}]

ResolveInit ==
    /\ StoreIdle
    /\ AuxIdle
    /\ inv = IdleInv
    /\ out = IdleOut
    /\ kIn = None
    /\ kOut = None
    /\ snd = IdleSend
    /\ rOut = None
    /\ \E q \in QueryPool, a \in Pools, c \in SeqsUpTo(ChatPool, MaxChats), h \in QmdPool :
          rIn = Some([query |-> q, attendees |-> a, chats |-> c, qmdResult |-> h])

Resolve(options) ==
    /\ IsSome(rIn)
    /\ rOut = None
    /\ LET i == Val(rIn)
       IN  rOut' = Some([options    |-> options,
                         ranked     |-> rankContacts(i.query, i.attendees, i.chats, i.qmdResult),
                         resolution |-> resolveContacts(i.query, i.attendees, i.chats,
                                                        i.qmdResult, options)])
    /\ UNCHANGED <<db, now, hist, ncalls, inboxVars, kIn, kOut, rIn, snd, auxVars>>

ResolveNext == \E options \in OptionPool : Resolve(options)

SpecResolve == ResolveInit /\ [][ResolveNext]_vars

MaxCandidatesOf(options) ==
    IF IsSome(options.maxCandidates) THEN Val(options.maxCandidates) ELSE DEFAULT_MAX_CANDIDATES

\* the score of every non-self attendee of the pool
PoolScores ==
    LET i == Val(rIn)
        recency == buildRecencyScoreByProviderId(i.chats)
    IN  {ScoreAttendee(i.query, i.attendees[n], recency, i.qmdResult) :
            n \in {x \in 1..Len(i.attendees) : i.attendees[x].is_self # 1}}

\* C2: for every result of resolveContacts with maxCandidates >= 2, status =
\* resolved implies that selected is present, selected.totalScore >= threshold
\* and, when a second-ranked candidate exists, selected.totalScore minus its
\* totalScore >= margin; status = not_found implies that no non-self candidate
\* has totalScore >= 0.35.
C2_ResolutionInvariant ==
    ( IsSome(rOut) /\ MaxCandidatesOf(Val(rOut).options) >= 2 ) =>
        LET r == Val(rOut).resolution
        IN  /\ r.status = "resolved" =>
                /\ IsSome(r.selected)
                /\ RGe(Val(r.selected).totalScore, r.threshold)
                /\ Len(r.candidates) >= 2 =>
                     RGe(RSub(Val(r.selected).totalScore, r.candidates[2].totalScore), r.margin)
            /\ r.status = "not_found" =>
                \A c \in PoolScores : RLt(c.totalScore, <<7, 20>>)

\* a resolved result that had a runner-up to beat
C2_Witness ==
    /\ IsSome(rOut)
    /\ MaxCandidatesOf(Val(rOut).options) >= 2
    /\ Val(rOut).resolution.status = "resolved"
    /\ Len(Val(rOut).resolution.candidates) >= 2
    /\ RLt(Zero, Val(rOut).resolution.candidates[2].totalScore)
    /\ RLt(Zero, Val(rOut).resolution.margin)

\* the status the stated policy gives to a ranking
PolicyStatus(candidates, threshold, margin) ==
    IF Len(candidates) = 0 \/ RLt(candidates[1].totalScore, <<7, 20>>) THEN "not_found"
    ELSE IF /\ RGe(candidates[1].totalScore, threshold)
            /\ \/ Len(candidates) < 2
               \/ RGe(RSub(candidates[1].totalScore, candidates[2].totalScore), margin)
         THEN "resolved"
         ELSE "ambiguous"

\* C17: for every threshold and margin in [0, 1] and every pool, the status
\* of resolveContacts is the policy's: not_found with no candidate or a top
\* total below 0.35; otherwise resolved when the top total is >= threshold
\* and there is no runner-up or the top beats it by >= margin; otherwise
\* ambiguous, with the top candidate selected.
C17_StatusIsPolicy ==
    IsSome(rOut) =>
        LET r == Val(rOut).resolution
        IN  /\ r.status = PolicyStatus(r.candidates, r.threshold, r.margin)
            /\ r.status = "ambiguous" => r.selected = Some(r.candidates[1])

\* C18: a candidate matched by token overlap only has a lexical score of at
\* most 0.88, strictly below the scores of exact_id (1.0),
\* provider_id_contains (0.95), exact_name (0.94) and name_contains (0.90).
C18_TokenOverlapBelowExact ==
    IsSome(rOut) =>
        \A n \in 1..Len(Val(rOut).ranked) :
            LET c == Val(rOut).ranked[n]
            IN  (Len(c.matchedBy) >= 1 /\ c.matchedBy[1] = "token_overlap") =>
                    /\ RLe(c.lexicalScore, <<22, 25>>)
                    /\ RLt(c.lexicalScore, <<9, 10>>)

\* the position of a candidate's attendee in the pool given to the call
InputIndex(candidate) ==
    CHOOSE n \in 1..Len(Val(rIn).attendees) : Val(rIn).attendees[n] = candidate.attendee

C22_NoSelfCandidate ==
    IsSome(rOut) =>
        LET o == Val(rOut)
        IN  /\ \A n \in 1..Len(o.ranked) : o.ranked[n].attendee.is_self # 1
            /\ \A n \in 1..Len(o.resolution.candidates) :
                  o.resolution.candidates[n].attendee.is_self # 1
            /\ IsSome(o.resolution.selected) => Val(o.resolution.selected).attendee.is_self # 1

\* the pool held a self-flagged attendee that matches the query better than
\* the candidate that was selected
C22_Witness ==
    /\ IsSome(rOut)
    /\ IsSome(Val(rOut).resolution.selected)
    /\ \E n \in 1..Len(Val(rIn).attendees) :
          /\ Val(rIn).attendees[n].is_self = 1
          /\ RLt(Val(Val(rOut).resolution.selected).lexicalScore,
                 lexicalScore(Val(rIn).query, Val(rIn).attendees[n]).score)

\* C27: whenever the two best non-self candidates of the pool have totals
\* that differ by less than margin, the status is not resolved, whatever
\* maxCandidates is, 1 included.
C27_MarginIgnoresMaxCandidates ==
    ( /\ IsSome(rOut)
      /\ Len(Val(rOut).ranked) >= 2
      /\ RLt(RSub(Val(rOut).ranked[1].totalScore, Val(rOut).ranked[2].totalScore),
             Val(rOut).resolution.margin) )
    => Val(rOut).resolution.status # "resolved"

\* the pool has exactly one non-self attendee, and its provider_id normalises
\* to the normalised query
SoleExactProviderId ==
    /\ IsSome(rIn)
    /\ Cardinality({n \in 1..Len(Val(rIn).attendees) : Val(rIn).attendees[n].is_self # 1}) = 1
    /\ \A n \in 1..Len(Val(rIn).attendees) :
          Val(rIn).attendees[n].is_self # 1 =>
              normalize(Val(rIn).attendees[n].provider_id) = normalize(Val(rIn).query)

\* C4 as stated: for a pool whose only non-self candidate has a provider_id
\* whose normalized form equals the normalized query, resolveContacts returns
\* status = resolved with that candidate selected and match reasons exactly
\* [exact_id], for every threshold <= 1.0, with or without history and hits.
C4_ExactIdResolves ==
    ( IsSome(rOut) /\ SoleExactProviderId /\ RLe(Val(rOut).resolution.threshold, One) ) =>
        LET r == Val(rOut).resolution
        IN  /\ r.status = "resolved"
            /\ IsSome(r.selected)
            /\ Val(r.selected).attendee.is_self # 1
            /\ Val(r.selected).matchedBy = <<"exact_id">>

\* C4 amended: under the same premises, with a non-empty normalized query and
\* maxCandidates >= 1, that candidate is selected with lexicalScore 1,
\* totalScore = 0.75 + 0.15 recency + 0.10 qmd and exact_id as first reason
\* (then recent_chat when recency >= 0.65, qmd_context when qmd >= 0.5); the
\* status is resolved exactly when totalScore >= threshold and totalScore >=
\* margin, and ambiguous otherwise.  Without history and hits totalScore is
\* 0.75, below the default threshold 0.9.
C4_ExactIdSelected ==
    ( /\ IsSome(rOut) /\ SoleExactProviderId
      /\ Len(normalize(Val(rIn).query)) > 0
      /\ MaxCandidatesOf(Val(rOut).options) >= 1 ) =>
        LET r == Val(rOut).resolution
            t == Val(r.selected)
        IN  /\ IsSome(r.selected)
            /\ t.attendee.is_self # 1
            /\ t.attendee \in Range(Val(rIn).attendees)
            /\ t.lexicalScore = One
            /\ t.totalScore = RAdd(<<3, 4>>, RAdd(RMul(<<3, 20>>, t.recencyScore),
                                                  RMul(<<1, 10>>, t.qmdScore)))
            /\ t.matchedBy = <<"exact_id">>
                   \o (IF RGe(t.recencyScore, <<13, 20>>) THEN <<"recent_chat">> ELSE <<>>)
                   \o (IF RGe(t.qmdScore, <<1, 2>>) THEN <<"qmd_context">> ELSE <<>>)
            /\ r.status = IF RGe(t.totalScore, r.threshold) /\ RGe(t.totalScore, r.margin)
                          THEN "resolved" ELSE "ambiguous"
            /\ ( Val(rIn).chats = <<>> /\ ~Val(rIn).qmdResult.available ) =>
                   /\ t.totalScore = <<3, 4>>
                   /\ (r.threshold = DEFAULT_THRESHOLD => r.status = "ambiguous")

\* an exact provider-id match under the default threshold and margin, without
\* history and without oracle
C4_Witness ==
    /\ IsSome(rOut) /\ SoleExactProviderId
    /\ Len(Val(rIn).attendees) = 2
    /\ Val(rIn).chats = <<>>
    /\ ~Val(rIn).qmdResult.available
    /\ Val(rOut).options.threshold = None
    /\ Val(rOut).options.margin = None
    /\ Val(rOut).resolution.status = "ambiguous"
    /\ Val(Val(rOut).resolution.selected).matchedBy = <<"exact_id">>

InUnit(x) == RLe(Zero, x) /\ RLe(x, One)

\* C5: every candidate returned by rankContacts has lexicalScore,
\* recencyScore, qmdScore and totalScore within [0, 1], for every query,
\* including queries in which a token occurs more than once.
C5_ScoresInUnitInterval ==
    IsSome(rOut) =>
        \A n \in 1..Len(Val(rOut).ranked) :
            LET c == Val(rOut).ranked[n]
            IN  /\ InUnit(c.lexicalScore)
                /\ InUnit(c.recencyScore)
                /\ InUnit(c.qmdScore)
                /\ InUnit(c.totalScore)

(***************************************************************************)
(* The send command: src/src/index.ts (SpecSend)                           *)
(***************************************************************************)
Digits == {"0", "1", "2", "3", "4", "5", "6", "7", "8", "9"}
IsDigit(c) == c \in Digits

toWhatsAppProviderId(input) ==
    IF ~IsSome(input) \/ Len(Val(input)) = 0 THEN None
    ELSE LET digits == SelectSeq(Val(input), IsDigit)
         IN  IF Len(digits) < 8 THEN None
             ELSE Some(digits \o <<"@", "s", ".", "w", "h", "a", "t", "s", "a", "p", "p",
                                   ".", "n", "e", "t">>)

Truthy(o) == IsSome(o) /\ Len(Val(o)) > 0

SendFlagPool ==
    [chatId     : {None, Some(<<"c", "9">>)},
     attendeeId : {None, Some(<<"i", "1">>), Some(<<"z">>)},
     toQuery    : {None, Some(<<"a">>), Some(<<"p", " ", "1">>), Some(<<"p">>),
                   Some(<<"a", " ", "1", "2", "3", "4", "5", "6", "7", "8">>)},
     threshold  : {None, Some(<<3, 4>>)}]

SendChatPool ==
    {<<>>,
     <<Chat(<<"c", "1">>, Some(<<"P", "-", "1">>), Some(Iso(2000)))>>,
     <<Chat(<<"c", "2">>, Some(<<"p", "2">>), Some(Iso(1000))),
       Chat(<<"c", "1">>, Some(<<"P", "-", "1">>), Some(Iso(2000)))>>}

SendQmdPool ==
    {[available |-> FALSE, hits |-> <<>>],
     [available |-> TRUE, hits |-> <<Hit(<<"p", "-", "1">>)>>]}

SendInit ==
    /\ StoreIdle
    /\ AuxIdle
    /\ inv = IdleInv
    /\ out = IdleOut
    /\ kIn = None
    /\ kOut = None
    /\ rOut = None
    /\ \E a \in Pools, c \in SendChatPool, h \in SendQmdPool :
          rIn = Some([attendees |-> a, chats |-> c, qmdResult |-> h])
    /\ \E f \in SendFlagPool :
          snd = [pc |-> "start", flags |-> f, calls |-> <<>>, resolution |-> None,
                 selected |-> None, exit |-> None]

SendUnchanged == UNCHANGED <<db, now, hist, ncalls, inboxVars, kIn, kOut, rIn, rOut, auxVars>>

Exit(code) == [snd EXCEPT !.pc = "exit", !.exit = Some(code)]

ProviderCall(s, op, target, ok) ==
    [s EXCEPT !.calls = Append(@, [op |-> op, target |-> target, ok |-> ok])]

\* --chat-id given: client.sendMessage on that chat
SendToChat(ok) ==
    /\ snd.pc = "start"
    /\ Truthy(snd.flags.chatId)
    /\ snd' = ProviderCall(Exit(IF ok THEN 0 ELSE 1), "sendMessage", Val(snd.flags.chatId), ok)
    /\ SendUnchanged

\* direct WhatsApp phone routing; a failure is caught and falls through
SendPhoneRoute(ok) ==
    /\ snd.pc = "start"
    /\ ~Truthy(snd.flags.chatId)
    /\ Truthy(snd.flags.toQuery)
    /\ IsSome(toWhatsAppProviderId(snd.flags.toQuery))
    /\ snd' = ProviderCall(IF ok THEN Exit(0) ELSE [snd EXCEPT !.pc = "context"],
                           "startChat", Val(toWhatsAppProviderId(snd.flags.toQuery)), ok)
    /\ SendUnchanged

SendNoPhoneRoute ==
    /\ snd.pc = "start"
    /\ ~Truthy(snd.flags.chatId)
    /\ ~(Truthy(snd.flags.toQuery) /\ IsSome(toWhatsAppProviderId(snd.flags.toQuery)))
    /\ snd' = [snd EXCEPT !.pc = "context"]
    /\ SendUnchanged

\* fetchResolutionContext: listAttendees and listChats
SendFetchContext(ok) ==
    /\ snd.pc = "context"
    /\ snd' = IF ok THEN [snd EXCEPT !.pc = "select"] ELSE Exit(1)
    /\ SendUnchanged

\* Array.prototype.find
FindAttendee(attendees, attendeeId) ==
    LET hits == {i \in 1..Len(attendees) :
                    attendees[i].id = attendeeId \/ attendees[i].provider_id = attendeeId}
    IN  IF hits = {} THEN None ELSE Some(attendees[MinOf(hits)])

SendSelect ==
    /\ snd.pc = "select"
    /\ LET ctx == Val(rIn)
           found == FindAttendee(ctx.attendees, Val(snd.flags.attendeeId))
           resolution == resolveContacts(Val(snd.flags.toQuery), ctx.attendees, ctx.chats,
                             ctx.qmdResult,
                             [threshold |-> snd.flags.threshold, margin |-> None,
                              maxCandidates |-> Some(5)])
       IN  snd' =
             IF Truthy(snd.flags.attendeeId)
             THEN IF IsSome(found)
                  THEN [snd EXCEPT !.pc = "deliver", !.selected = found]
                  ELSE Exit(1)
             ELSE IF Truthy(snd.flags.toQuery)
             THEN IF resolution.status # "resolved" \/ ~IsSome(resolution.selected)
                  THEN [Exit(2) EXCEPT !.resolution = Some(resolution)]
                  ELSE [snd EXCEPT !.pc = "deliver", !.resolution = Some(resolution),
                                   !.selected = Some(Val(resolution.selected).attendee)]
             ELSE Exit(1)
    /\ SendUnchanged

SendDeliver(ok) ==
    /\ snd.pc = "deliver"
    /\ LET chats == Val(rIn).chats
           existing == {i \in 1..Len(chats) :
                           /\ Truthy(chats[i].attendee_provider_id)
                           /\ Val(chats[i].attendee_provider_id) = Val(snd.selected).provider_id}
       IN  snd' = IF existing # {}
                  THEN ProviderCall(Exit(IF ok THEN 0 ELSE 1), "sendMessage",
                                    chats[MinOf(existing)].id, ok)
                  ELSE ProviderCall(Exit(IF ok THEN 0 ELSE 1), "startChat",
                                    Val(snd.selected).provider_id, ok)
    /\ SendUnchanged

SendNext ==
    \/ \E ok \in BOOLEAN : SendToChat(ok)
    \/ \E ok \in BOOLEAN : SendPhoneRoute(ok)
    \/ SendNoPhoneRoute
    \/ \E ok \in BOOLEAN : SendFetchContext(ok)
    \/ SendSelect
    \/ \E ok \in BOOLEAN : SendDeliver(ok)

SpecSend == SendInit /\ [][SendNext]_vars

\* C3: for send with --to-query and without --chat-id or --attendee-id, the
\* provider's sendMessage/startChat operation is called only if resolveContacts
\* returned status resolved for that query; when the status is ambiguous or
\* not_found the command exits with code 2 and no message is sent.
C3_SendOnlyWhenResolved ==
    ( /\ snd.pc # "idle"
      /\ Truthy(snd.flags.toQuery)
      /\ ~Truthy(snd.flags.chatId)
      /\ ~Truthy(snd.flags.attendeeId) ) =>
        /\ snd.calls # <<>> =>
              IsSome(snd.resolution) /\ Val(snd.resolution).status = "resolved"
        /\ ( IsSome(snd.resolution) /\ Val(snd.resolution).status # "resolved" ) =>
              /\ snd.exit = Some(2)
              /\ \A i \in 1..Len(snd.calls) : ~snd.calls[i].ok

(***************************************************************************)
(* inbox pull and inbox watch: src/src/index.ts (Spec)                     *)
(***************************************************************************)
CURSOR_OVERLAP_MS == 1000

\* a timestamp string that Date.parse accepts but toISOString would not print
Loose(ms) == [kind |-> "loose", ms |-> ms]

\* a string of white space only
Blank == [kind |-> "blank", ms |-> 0]

toMessageKey(message) == message.account_id \o <<":">> \o message.id

\* null when missing, blank or unparsable
toEpochMillis(value) ==
    IF ~IsSome(value) \/ Val(value).kind = "blank" THEN None ELSE DateParse(Val(value))

\* dedupeMessages: the first message of every account/id key
RECURSIVE dedupeMessages(_)
dedupeMessages(messages) ==
    IF Len(messages) = 0 THEN <<>>
    ELSE LET deduped == dedupeMessages(Front(messages))
         IN  IF \E i \in 1..Len(deduped) : toMessageKey(deduped[i]) = toMessageKey(Last(messages))
             THEN deduped ELSE Append(deduped, Last(messages))

EpochOrZero(message) ==
    IF IsSome(toEpochMillis(message.timestamp)) THEN Val(toEpochMillis(message.timestamp)) ELSE 0

\* the comparator of sortMessagesChronologically
CompareMessages(left, right) ==
    IF EpochOrZero(left) # EpochOrZero(right)
    THEN EpochOrZero(left) - EpochOrZero(right)
    ELSE localeCompare(left.id, right.id)

RECURSIVE InsertMessageSorted(_, _)
InsertMessageSorted(sorted, x) ==
    IF Len(sorted) = 0 THEN <<x>>
    ELSE IF CompareMessages(Last(sorted), x) <= 0 THEN Append(sorted, x)
    ELSE Append(InsertMessageSorted(Front(sorted), x), Last(sorted))

RECURSIVE sortMessagesChronologically(_)
sortMessagesChronologically(messages) ==
    IF Len(messages) = 0 THEN <<>>
    ELSE InsertMessageSorted(sortMessagesChronologically(Front(messages)), Last(messages))

\* without Math.max(0, ...): the overlap may take the cursor before the epoch
computeNextSinceCursor_NoFloor(currentSince, timestamps) ==
    LET parsed == {Val(toEpochMillis(timestamps[i])) :
                      i \in {x \in 1..Len(timestamps) : IsSome(toEpochMillis(timestamps[x]))}}
        current == IF IsSome(currentSince) THEN DateParse(Val(currentSince)) ELSE None
        candidates == IF IsSome(current) THEN parsed \cup {Val(current)} ELSE parsed
    IN  IF candidates = {} THEN currentSince
        ELSE Some(Iso(MaxOf(candidates) - CURSOR_OVERLAP_MS))

\* currentSince: optional string; timestamps: sequence of optional strings
computeNextSinceCursor(currentSince, timestamps) ==
    LET parsed == {Val(toEpochMillis(timestamps[i])) :
                      i \in {x \in 1..Len(timestamps) : IsSome(toEpochMillis(timestamps[x]))}}
        current == IF IsSome(currentSince) THEN DateParse(Val(currentSince)) ELSE None
        candidates == IF IsSome(current) THEN parsed \cup {Val(current)} ELSE parsed
        newest == MaxOf(candidates)
        overlapped == IF newest - CURSOR_OVERLAP_MS > 0 THEN newest - CURSOR_OVERLAP_MS ELSE 0
    IN  IF candidates = {} THEN currentSince ELSE Some(Iso(overlapped))

Timestamps(messages) == [i \in 1..Len(messages) |-> messages[i].timestamp]

\* what the provider holds for the account
ProviderMessages == {m \in MessagePool : m.text = <<"x">>}

\* --reset-state and --since are drawn for pull only; without state the scope
\* flags play no part
InboxFlagPool ==
    {f \in [mode          : {"pull", "watch"},
            useState      : BOOLEAN,
            resetState    : BOOLEAN,
            explicitSince : {None, Some(Loose(2000))},
            scope         : ScopeFlags,
            once          : BOOLEAN,
            maxIterations : {None, Some(2)}] :
        /\ f.mode = "pull" => ~f.once /\ f.maxIterations = None
        /\ f.mode = "watch" => ~f.resetState /\ f.explicitSince = None
        /\ ~f.useState => ~f.resetState /\ f.scope.chatId = None}

Init ==
    /\ StoreIdle
    /\ AuxIdle
    /\ inv = IdleInv
    /\ out = IdleOut
    /\ kIn = None
    /\ kOut = None
    /\ rIn = None
    /\ rOut = None
    /\ snd = IdleSend

InboxUnchanged == UNCHANGED <<hist, ncalls, pureVars>>

FirstSeen(d) == {<<<<r.account_id, r.message_id>>, r.first_seen_at>> : r \in d.inbox_message_store}
SeenPairs(d, k) ==
    {<<x.account_id, x.message_id>> : x \in {y \in d.scope_message_seen : y.scope_key = k}}

\* parse the flags, build the client, open the store and build the scope key
Begin(f) ==
    /\ inv.pc = "idle"
    /\ inv.run < MaxRuns
    /\ inv' = [pc               |-> IF f.useState THEN "open" ELSE "fetch",
               run              |-> inv.run + 1,
               flags            |-> f,
               storeOpen        |-> FALSE,
               handleOpen       |-> FALSE,
               opens            |-> 0,
               closes           |-> 0,
               storeOps         |-> 0,
               sleeps           |-> 0,
               emittedRun       |-> {},
               dup              |-> FALSE,
               scopeKey         |-> IF f.useState
                                    THEN Some(buildInboxScopeKey(ScopeDescriptor(f.scope)))
                                    ELSE None,
               sinceCursor      |-> f.explicitSince,
               usedStoredCursor |-> FALSE,
               iteration        |-> 0,
               sorted           |-> <<>>,
               idx              |-> 0,
               newMessages      |-> <<>>,
               memorySeen       |-> {},
               nextSince        |-> None,
               newStoreRows     |-> 0,
               newScopeRows     |-> 0,
               exit             |-> None,
               firstFetchSince  |-> None,
               seenBefore       |-> IF f.useState
                                    THEN SeenPairs(db, buildInboxScopeKey(ScopeDescriptor(f.scope)))
                                    ELSE {},
               firstSeenBefore  |-> FirstSeen(db),
               roundDb          |-> db]
    /\ UNCHANGED <<db, now, out>>
    /\ InboxUnchanged

\* createInboxStateStore: the sqlite file is opened and the store built on it
OpenStep ==
    /\ inv.pc = "open"
    /\ inv' = [inv EXCEPT !.pc = IF inv.flags.resetState THEN "reset" ELSE "cursor",
                          !.storeOpen = TRUE,
                          !.handleOpen = TRUE,
                          !.opens = @ + 1]
    /\ UNCHANGED <<db, now, out>>
    /\ InboxUnchanged

\* createInboxStateStore throws before a database is opened (mkdirSync or
\* loadSqliteModule): stateStore stays null
OpenFailsLoad ==
    /\ inv.pc = "open"
    /\ inv' = [inv EXCEPT !.pc = "close", !.exit = Some(1)]
    /\ UNCHANGED <<db, now, out>>
    /\ InboxUnchanged

\* new DatabaseSync(path) has opened the file and the InboxStateStore
\* constructor throws in exec or prepare: stateStore stays null
OpenFailsInit ==
    /\ inv.pc = "open"
    /\ inv' = [inv EXCEPT !.pc = "close", !.exit = Some(1),
                          !.handleOpen = TRUE,
                          !.opens = @ + 1]
    /\ UNCHANGED <<db, now, out>>
    /\ InboxUnchanged

\* a statement of the store throws: the finally block runs
StoreFails ==
    /\ inv.pc \in {"reset", "cursor", "persist"}
    /\ inv' = [inv EXCEPT !.pc = "close", !.exit = Some(1), !.storeOps = @ + 1]
    /\ UNCHANGED <<db, now, out>>
    /\ InboxUnchanged

\* --reset-state
ResetStep ==
    /\ inv.pc = "reset"
    /\ db' = resetScope(db, Val(inv.scopeKey))
    /\ inv' = [inv EXCEPT !.pc = "cursor", !.storeOps = @ + 1]
    /\ out' = [out EXCEPT !.reset = @ \cup {Val(inv.scopeKey)}]
    /\ UNCHANGED now
    /\ InboxUnchanged

\* the stored cursor taking precedence over --since
CursorStep_StoredFirst ==
    /\ inv.pc = "cursor"
    /\ LET stored == getCursor(db, Val(inv.scopeKey))
       IN  inv' = IF IsSome(stored)
                  THEN [inv EXCEPT !.pc = "fetch", !.sinceCursor = stored,
                                   !.usedStoredCursor = TRUE, !.storeOps = @ + 1]
                  ELSE [inv EXCEPT !.pc = "fetch", !.storeOps = @ + 1]
    /\ UNCHANGED <<db, now, out>>
    /\ InboxUnchanged

\* the stored cursor is used when no --since was given
CursorStep ==
    /\ inv.pc = "cursor"
    /\ LET stored == getCursor(db, Val(inv.scopeKey))
       IN  inv' = IF IsSome(inv.sinceCursor)
                  THEN [inv EXCEPT !.pc = "fetch"]
                  ELSE IF IsSome(stored)
                  THEN [inv EXCEPT !.pc = "fetch", !.sinceCursor = stored,
                                   !.usedStoredCursor = TRUE, !.storeOps = @ + 1]
                  ELSE [inv EXCEPT !.pc = "fetch", !.storeOps = @ + 1]
    /\ UNCHANGED <<db, now, out>>
    /\ InboxUnchanged

\* fetchScopedMessages returned the concatenation `collected` of its pages
FetchStep(collected) ==
    /\ inv.pc = "fetch"
    /\ inv' = [inv EXCEPT !.pc = IF inv.flags.useState THEN "persist" ELSE "filter",
                          !.iteration = @ + 1,
                          !.sorted = sortMessagesChronologically(dedupeMessages(collected)),
                          !.idx = 1,
                          !.newMessages = <<>>,
                          !.firstFetchSince = IF inv.iteration = 0 THEN Some(inv.sinceCursor) ELSE @]
    /\ UNCHANGED <<db, now, out>>
    /\ InboxUnchanged

\* a provider error: the command throws, the finally block runs
FetchFails ==
    /\ inv.pc = "fetch"
    /\ inv' = [inv EXCEPT !.pc = "close", !.exit = Some(1), !.iteration = @ + 1,
                          !.firstFetchSince = IF inv.iteration = 0 THEN Some(inv.sinceCursor) ELSE @]
    /\ UNCHANGED <<db, now, out>>
    /\ InboxUnchanged

\* one turn of the loop over sorted, with state
PersistStep ==
    /\ inv.pc = "persist"
    /\ inv.idx <= Len(inv.sorted)
    /\ LET message == inv.sorted[inv.idx]
           persisted == persistMessage(db, Val(inv.scopeKey), message, now)
       IN  /\ db' = persisted.db
           /\ inv' = [inv EXCEPT !.idx = @ + 1,
                                 !.storeOps = @ + 1,
                                 !.newStoreRows = IF persisted.result.isNewInStore THEN @ + 1 ELSE @,
                                 !.newScopeRows = IF inv.flags.mode = "pull" /\ persisted.result.isNewForScope
                                                  THEN @ + 1 ELSE @,
                                 !.newMessages = IF persisted.result.isNewForScope
                                                 THEN Append(@, message) ELSE @]
    /\ UNCHANGED <<now, out>>
    /\ InboxUnchanged

\* computeNextSinceCursor and upsertScopeState, after the loop
UpsertStep ==
    /\ inv.pc = "persist"
    /\ inv.idx > Len(inv.sorted)
    /\ LET nextSince == computeNextSinceCursor(inv.sinceCursor, Timestamps(inv.sorted))
       IN  /\ db' = upsertScopeState(db,
                       [scopeKey    |-> Val(inv.scopeKey),
                        profileName |-> Profile,
                        accountId   |-> AccountA,
                        chatIds     |-> ScopeDescriptor(inv.flags.scope).chatIds,
                        senderId    |-> ScopeDescriptor(inv.flags.scope).senderId,
                        sinceCursor |-> nextSince], now)
           /\ inv' = [inv EXCEPT !.pc = "emit",
                                 !.storeOps = @ + 1,
                                 !.nextSince = nextSince,
                                 !.sinceCursor = IF inv.flags.mode = "watch" THEN nextSince ELSE @]
    /\ UNCHANGED <<now, out>>
    /\ InboxUnchanged

\* newMessages of a watch round without state: the messages not in memorySeen
RECURSIVE NotInMemory(_, _)
NotInMemory(messages, memorySeen) ==
    IF Len(messages) = 0 THEN <<>>
    ELSE LET earlier == NotInMemory(Front(messages), memorySeen)
             key == toMessageKey(Last(messages))
         IN  IF key \in memorySeen \/ \E i \in 1..Len(earlier) : toMessageKey(earlier[i]) = key
             THEN earlier ELSE Append(earlier, Last(messages))

FilterStep_NoMemory ==
    /\ inv.pc = "filter"
    /\ inv' = [inv EXCEPT !.pc = "emit",
                          !.newMessages = inv.sorted,
                          !.nextSince = computeNextSinceCursor(inv.sinceCursor, Timestamps(inv.sorted)),
                          !.sinceCursor = IF inv.flags.mode = "watch"
                                          THEN computeNextSinceCursor(inv.sinceCursor, Timestamps(inv.sorted))
                                          ELSE @]
    /\ UNCHANGED <<db, now, out>>
    /\ InboxUnchanged

\* --no-state: pull returns the whole batch, watch filters on memorySeen
FilterStep ==
    /\ inv.pc = "filter"
    /\ LET nextSince == computeNextSinceCursor(inv.sinceCursor, Timestamps(inv.sorted))
           fresh == IF inv.flags.mode = "pull" THEN inv.sorted
                    ELSE NotInMemory(inv.sorted, inv.memorySeen)
       IN  inv' = [inv EXCEPT !.pc = "emit",
                              !.newMessages = fresh,
                              !.memorySeen = IF inv.flags.mode = "pull" THEN @
                                             ELSE @ \cup {toMessageKey(m) : m \in Range(fresh)},
                              !.nextSince = nextSince,
                              !.sinceCursor = IF inv.flags.mode = "watch" THEN nextSince ELSE @]
    /\ UNCHANGED <<db, now, out>>
    /\ InboxUnchanged

Printed(o, key, messages) ==
    LET entries == {<<key, PairOf(m)>> : m \in Range(messages)}
    IN  [o EXCEPT !.twice = @ \cup (entries \cap o.once),
                  !.once = @ \cup entries]

WatchEnds_IgnoreOnce ==
    IsSome(inv.flags.maxIterations) /\ inv.iteration >= Val(inv.flags.maxIterations)

WatchEnds ==
    \/ inv.flags.once
    \/ IsSome(inv.flags.maxIterations) /\ inv.iteration >= Val(inv.flags.maxIterations)

\* printResult: the pull payload, or the watch_event payload of a round that
\* found new messages
EmitStep ==
    /\ inv.pc = "emit"
    /\ out' = Printed(out, inv.scopeKey, inv.newMessages)
    /\ LET pairs == {PairOf(m) : m \in Range(inv.newMessages)}
           shown == [inv EXCEPT !.emittedRun = @ \cup pairs,
                                !.dup = @ \/ (pairs \cap inv.emittedRun # {})]
       IN  inv' = IF inv.flags.mode = "pull" \/ WatchEnds
                  THEN [shown EXCEPT !.pc = "close", !.exit = Some(0)]
                  ELSE [shown EXCEPT !.pc = "sleep", !.roundDb = db]
    /\ UNCHANGED <<db, now>>
    /\ InboxUnchanged

\* printResult throws while writing the payload: the finally block runs
EmitFails ==
    /\ inv.pc = "emit"
    /\ inv' = [inv EXCEPT !.pc = "close", !.exit = Some(1)]
    /\ UNCHANGED <<db, now, out>>
    /\ InboxUnchanged

\* await sleep(intervalSeconds * 1000)
SleepStep ==
    /\ inv.pc = "sleep"
    /\ inv.iteration < MaxPolls
    /\ inv' = [inv EXCEPT !.pc = "fetch", !.sleeps = @ + 1]
    /\ UNCHANGED <<db, now, out>>
    /\ InboxUnchanged

CloseStep_OnSuccessOnly ==
    /\ inv.pc = "close"
    /\ out' = out
    /\ inv' = [inv EXCEPT !.pc = "done",
                          !.handleOpen = IF inv.storeOpen /\ inv.exit = Some(0) THEN FALSE ELSE @,
                          !.closes = IF inv.storeOpen /\ inv.exit = Some(0) THEN @ + 1 ELSE @]
    /\ UNCHANGED <<db, now>>
    /\ InboxUnchanged

\* finally: stateStore?.close()
CloseStep ==
    /\ inv.pc = "close"
    /\ out' = [out EXCEPT !.last =
                  IF inv.flags.useState
                  THEN Some([scopeKey   |-> Val(inv.scopeKey),
                             resetPull  |-> inv.flags.mode = "pull" /\ inv.flags.resetState
                                              /\ inv.exit = Some(0),
                             seenBefore |-> inv.seenBefore])
                  ELSE @]
    /\ inv' = [inv EXCEPT !.pc = "done",
                          !.handleOpen = IF inv.storeOpen THEN FALSE ELSE @,
                          !.closes = IF inv.storeOpen THEN @ + 1 ELSE @]
    /\ UNCHANGED <<db, now>>
    /\ InboxUnchanged

\* the command returns its exit code or rethrows: the process ends
ReturnStep ==
    /\ inv.pc = "done"
    /\ inv' = [pc |-> "idle", run |-> inv.run]
    /\ UNCHANGED <<db, now, out>>
    /\ InboxUnchanged

\* the process is terminated in the middle of an invocation: nothing more of
\* it runs, the finally block included; what sqlite has committed stays
Interrupt ==
    /\ inv.pc \notin {"idle", "done"}
    /\ inv' = [pc |-> "idle", run |-> inv.run]
    /\ out' = [out EXCEPT !.last = None]
    /\ UNCHANGED <<db, now>>
    /\ InboxUnchanged

Next ==
    \/ Tick
    \/ \E f \in InboxFlagPool : Begin(f)
    \/ OpenStep
    \/ OpenFailsLoad
    \/ OpenFailsInit
    \/ StoreFails
    \/ ResetStep
    \/ CursorStep
    \/ \E collected \in SeqsUpTo(ProviderMessages, MaxBatch) : FetchStep(collected)
    \/ FetchFails
    \/ PersistStep
    \/ UpsertStep
    \/ FilterStep
    \/ EmitStep
    \/ EmitFails
    \/ SleepStep
    \/ CloseStep
    \/ ReturnStep
    \/ Interrupt

Spec == Init /\ [][Next]_vars

(***************************************************************************)
(* Claims on the inbox commands                                            *)
(***************************************************************************)
\* C1: with state enabled and no --reset-state, every (account_id, message
\* id) pair is emitted in at most one round per scope key, within one
\* invocation or across invocations, even when a later fetch returns the
\* message again: a pair emitted in two rounds under one scope key implies
\* that the scope was reset.
C1_AtMostOncePerScope ==
    \A e \in out.twice : IsSome(e[1]) => Val(e[1]) \in out.reset

\* a later round of a scope that was never reset fetched, under the stored
\* cursor, a message emitted in an earlier round and did not emit it again
C1_Witness ==
    /\ inv.pc = "sleep" \/ (inv.pc = "close" /\ inv.exit = Some(0))
    /\ inv.flags.useState
    /\ inv.usedStoredCursor
    /\ Val(inv.scopeKey) \notin out.reset
    /\ \E i \in 1..Len(inv.sorted) :
          /\ <<inv.scopeKey, PairOf(inv.sorted[i])>> \in out.once
          /\ inv.sorted[i] \notin Range(inv.newMessages)

FirstSeenKept ==
    \A e \in inv.firstSeenBefore :
        \A r \in db.inbox_message_store :
            <<r.account_id, r.message_id>> = e[1] => r.first_seen_at = e[2]

PullDone ==
    /\ inv.pc = "close"
    /\ inv.exit = Some(0)
    /\ inv.flags.mode = "pull"
    /\ inv.flags.useState
    /\ ~IsSome(inv.flags.explicitSince)

Replays(deliveredBefore) ==
    /\ ~inv.usedStoredCursor
    /\ inv.firstFetchSince = Some(None)
    /\ \A i \in 1..Len(inv.sorted) :
          PairOf(inv.sorted[i]) \in deliveredBefore => inv.sorted[i] \in Range(inv.newMessages)
    /\ FirstSeenKept

\* C9 as stated: the pull on S that follows a completed --reset-state pull on
\* S, given no --since, finds no stored cursor, fetches without lower bound
\* and re-emits the messages delivered to S before the reset, first_seen_at
\* unchanged.
C9_NextPullAfterReset ==
    ( /\ PullDone
      /\ IsSome(out.last)
      /\ Val(out.last).resetPull
      /\ Val(out.last).scopeKey = Val(inv.scopeKey) )
    => Replays(Val(out.last).seenBefore)

\* C9 amended: the --reset-state pull itself, given no --since, finds no
\* stored cursor, fetches without lower bound and re-emits every fetched
\* message that had been delivered to S before, first_seen_at unchanged.
C9_ResetPullReplays ==
    (PullDone /\ inv.flags.resetState) => Replays(inv.seenBefore)

\* a --reset-state pull has re-emitted a message delivered before, later than
\* the message's first_seen_at
C9_Witness ==
    /\ PullDone
    /\ inv.flags.resetState
    /\ \E i \in 1..Len(inv.sorted) :
          /\ PairOf(inv.sorted[i]) \in inv.seenBefore
          /\ inv.sorted[i] \in Range(inv.newMessages)
          /\ \E r \in db.inbox_message_store :
                /\ <<r.account_id, r.message_id>> = PairOf(inv.sorted[i])
                /\ r.first_seen_at # now

\* C13: a watch that ends by itself has run exactly one round with --once
\* (whatever --max-iterations says) and exactly n rounds with
\* --max-iterations n alone; with neither it never ends by itself; it has
\* slept once between two consecutive rounds and never after the final one.
C13_WatchRounds ==
    (inv.pc \notin {"idle"} /\ inv.flags.mode = "watch") =>
        /\ (inv.pc \in {"close", "done"} /\ inv.exit = Some(0)) =>
              /\ inv.flags.once => inv.iteration = 1
              /\ (~inv.flags.once /\ IsSome(inv.flags.maxIterations)) =>
                    inv.iteration = Val(inv.flags.maxIterations)
              /\ inv.flags.once \/ IsSome(inv.flags.maxIterations)
        /\ inv.sleeps = IF inv.pc \in {"open", "reset", "cursor", "fetch"} \/ inv.iteration = 0
                        THEN inv.iteration
                        ELSE inv.iteration - 1

\* a watch with --max-iterations 2 and no --once has ended after its second
\* round, having slept once
C13_Witness ==
    /\ inv.pc = "close"
    /\ inv.exit = Some(0)
    /\ inv.flags.mode = "watch"
    /\ ~inv.flags.once
    /\ inv.flags.maxIterations = Some(2)
    /\ inv.iteration = 2
    /\ inv.sleeps = 1

\* the messages the running round has marked seen and is about to print
PendingEmission(scopeKey) ==
    IF inv.pc \in {"persist", "emit"} /\ inv.scopeKey = Some(scopeKey)
    THEN {PairOf(m) : m \in Range(inv.newMessages)}
    ELSE {}

\* C14: whatever interrupts a stateful round (termination of the process, an
\* exception from a store or output step), no message is marked seen for a
\* scope without having been emitted for it: every seen-mark belongs to a
\* message already emitted or to one the running round is about to emit.
C14_SeenOnlyIfEmitted ==
    \A r \in db.scope_message_seen :
        \/ <<Some(r.scope_key), <<r.account_id, r.message_id>>>> \in out.once
        \/ <<r.account_id, r.message_id>> \in PendingEmission(r.scope_key)

\* C15: a stateful pull or watch opens the state store at most once, and a
\* store it has opened is closed exactly once when the command returns or
\* throws, and not before: after a successful run, after a provider fetch
\* failure in any round, after a failing store operation.
C15_OpenedOnceClosedOnce ==
    inv.pc \notin {"idle"} =>
        /\ inv.opens <= 1
        /\ inv.storeOpen => inv.opens = 1
        /\ inv.pc # "done" => inv.closes = 0
        /\ (inv.pc = "done" /\ inv.storeOpen) => inv.closes = 1 /\ ~inv.handleOpen
        /\ (inv.pc = "done" /\ ~inv.storeOpen) => inv.closes = 0

\* a watch whose second round failed has closed the store it had opened
C15_Witness ==
    /\ inv.pc = "done"
    /\ inv.exit = Some(1)
    /\ inv.storeOpen
    /\ inv.iteration = 2
    /\ inv.opens = 1
    /\ inv.closes = 1

NoStateRun == inv.pc \notin {"idle"} /\ ~inv.flags.useState

NoStateSafe ==
    NoStateRun =>
        /\ inv.opens = 0 /\ ~inv.storeOpen /\ ~inv.handleOpen
        /\ inv.storeOps = 0
        /\ ~inv.dup
        /\ (inv.iteration = 1 /\ inv.pc \in {"emit", "sleep", "close", "done"} /\ inv.exit # Some(1))
              => inv.newMessages = inv.sorted

\* C20: with --no-state, pull and watch never open, read or write the state
\* store; one watch run emits a pair in at most one of its rounds; the first
\* round of an invocation emits every fetched message, whatever earlier
\* no-state invocations have emitted.
C20_NoState ==
    /\ []NoStateSafe
    /\ [][NoStateRun => db' = db]_vars

\* the second round of a no-state watch has dropped a fetched message that
\* its first round emitted, after an earlier no-state invocation had emitted
\* the same message
C20_Witness ==
    /\ NoStateRun
    /\ inv.flags.mode = "watch"
    /\ inv.iteration = 2
    /\ inv.pc = "close"
    /\ inv.exit = Some(0)
    /\ \E i \in 1..Len(inv.sorted) :
          /\ inv.sorted[i] \notin Range(inv.newMessages)
          /\ PairOf(inv.sorted[i]) \in inv.emittedRun
          /\ <<None, PairOf(inv.sorted[i])>> \in out.twice

SeenHasArchiveRow ==
    \A s \in db.scope_message_seen :
        \E r \in db.inbox_message_store :
            r.account_id = s.account_id /\ r.message_id = s.message_id

PullCounts ==
    (inv.pc \notin {"idle"} /\ inv.flags.useState /\ inv.flags.mode = "pull") =>
        /\ inv.newStoreRows <= inv.newScopeRows
        /\ inv.newScopeRows = Len(inv.newMessages)

\* a persistMessage call of the running command that reported a new archive
\* row reported a new seen-mark as well
NewInStoreIsNewForScope ==
    (inv.pc = "persist" /\ inv'.pc = "persist" /\ inv'.newStoreRows > inv.newStoreRows)
        => Len(inv'.newMessages) > Len(inv.newMessages)

\* C19: in every reachable store state every seen-mark has an archive row;
\* persistMessage never returns isNewInStore = true with isNewForScope =
\* false; a stateful pull reports new_store_rows <= new_scope_rows, and
\* new_scope_rows is the number of messages it returns.
C19_SeenMarksArchived ==
    /\ [](SeenHasArchiveRow /\ PullCounts)
    /\ [][NewInStoreIsNewForScope]_vars

\* a stateful pull has returned a message that another scope had archived
\* before: new for the scope, not new in the store
C19_Witness ==
    /\ PullDone
    /\ inv.newScopeRows >= 1
    /\ inv.newStoreRows < inv.newScopeRows
    /\ \E s \in db.scope_message_seen : s.scope_key # Val(inv.scopeKey)

\* the invocation is about to run its first fetch
FirstFetchNext == inv.pc = "fetch" /\ inv.iteration = 0

CursorKept ==
    ( /\ inv.pc \notin {"idle"}
      /\ inv.flags.useState
      /\ ~inv.flags.resetState
      /\ ~IsSome(inv.flags.explicitSince)
      /\ IsSome(toEpochMillis(getCursor(db, Val(inv.scopeKey)))) )
    => /\ IsSome(toEpochMillis(getCursor(db', Val(inv.scopeKey))))
       /\ Val(toEpochMillis(getCursor(db', Val(inv.scopeKey))))
             >= Val(toEpochMillis(getCursor(db, Val(inv.scopeKey))))

\* C25: over successive stateful rounds on one scope key, without
\* --reset-state and without --since, the persisted cursor never moves
\* backwards, rounds whose fetch returns no message included.
C25_CursorNeverBackwards == [][CursorKept]_vars

\* the provider messages with a timestamp after the bound `since`
AfterBound(since) ==
    {m \in ProviderMessages :
        /\ IsSome(toEpochMillis(m.timestamp))
        /\ IsSome(toEpochMillis(since)) =>
              Val(toEpochMillis(m.timestamp)) > Val(toEpochMillis(since))}

\* a stateful pull has persisted the batch and the cursor of its round, the
\* batch being pages of the provider's listing after the round's lower bound
PullRoundStored ==
    /\ inv.pc = "emit"
    /\ inv.flags.mode = "pull"
    /\ inv.flags.useState
    /\ Range(inv.sorted) \subseteq AfterBound(inv.sinceCursor)

\* C26: after a stateful pull round, every provider message of the scope
\* whose timestamp lies after the round's fetch lower bound and at or before
\* the newly persisted cursor has a seen-mark for the scope, whatever the
\* page order and also when the fetch stopped at maxPages.
C26_NoUndeliveredBehindCursor ==
    PullRoundStored =>
        \A m \in AfterBound(inv.sinceCursor) :
            ( /\ IsSome(toEpochMillis(getCursor(db, Val(inv.scopeKey))))
              /\ Val(toEpochMillis(m.timestamp))
                    <= Val(toEpochMillis(getCursor(db, Val(inv.scopeKey)))) )
            => PairOf(m) \in SeenPairs(db, Val(inv.scopeKey))

\* the provider fetch of a stateful round fails
FetchFailed ==
    /\ inv.pc = "fetch"
    /\ inv'.pc = "close"
    /\ inv.flags.useState

\* C28: when the provider fetch of a stateful round fails, nothing has been
\* persisted for that round: the store is what it was at the end of the
\* previous round (roundDb), with and without --reset-state.
C28_FailedFetchKeepsStore == [][FetchFailed => db' = inv.roundDb]_vars

(***************************************************************************)
(* computeNextSinceCursor on its own (SpecCursor)                          *)
(***************************************************************************)
MaxStamps == 2

\* message timestamps: missing, blank, unparsable, and valid ones, one of
\* them before the epoch
StampPool ==
    {None, Some(Blank), Some(BadDate), Some(Loose(-500)), Some(Iso(0)), Some(Iso(500)),
     Some(Iso(2000)), Some(Loose(3000))}

\* the current cursor: absent, unparsable, or valid
SincePool ==
    {None, Some(Blank), Some(BadDate), Some(Iso(0)), Some(Iso(500)), Some(Iso(1000)),
     Some(Loose(2500))}

CursorInit ==
    /\ StoreIdle
    /\ inv = IdleInv
    /\ out = IdleOut
    /\ kIn = None
    /\ kOut = None
    /\ rIn = None
    /\ rOut = None
    /\ snd = IdleSend
    /\ cOut = None
    /\ pg = IdlePages
    /\ procs = IdleProcs
    /\ \E c \in SincePool, t \in SeqsUpTo(StampPool, MaxStamps) :
          cIn = Some([currentSince |-> c, timestamps |-> t])

CursorCompute ==
    /\ IsSome(cIn)
    /\ cOut = None
    /\ cOut' = Some(computeNextSinceCursor(Val(cIn).currentSince, Val(cIn).timestamps))
    /\ UNCHANGED <<db, now, hist, ncalls, inboxVars, kIn, kOut, rIn, rOut, snd, cIn, pg, procs>>

CursorNext == CursorCompute

SpecCursor == CursorInit /\ [][CursorNext]_vars

ValidStamp(value) == IsSome(toEpochMillis(value))
ValidMillis(timestamps) ==
    {Val(toEpochMillis(timestamps[i])) : i \in {x \in 1..Len(timestamps) : ValidStamp(timestamps[x])}}
Floor0(n) == IF n > 0 THEN n ELSE 0

\* C11: computeNextSinceCursor(C, batch) ignores null, blank and unparsable
\* batch entries; when the greatest valid timestamp M of the batch is later
\* than C (or C is no valid time) the result is M - 1000 ms; when the batch
\* has no valid timestamp and C is valid the result is C - 1000 ms; in both
\* cases held at epoch 0, below which no result lies; with no valid timestamp
\* and no current cursor the result is undefined.
C11_CursorArithmetic ==
    IsSome(cOut) =>
        LET C == Val(cIn).currentSince
            batch == Val(cIn).timestamps
            result == Val(cOut)
            valid == ValidMillis(batch)
            current == IF IsSome(C) THEN DateParse(Val(C)) ELSE None
        IN  /\ result = computeNextSinceCursor(C, SelectSeq(batch, ValidStamp))
            /\ (valid # {} /\ (~IsSome(current) \/ MaxOf(valid) > Val(current)))
                  => result = Some(Iso(Floor0(MaxOf(valid) - 1000)))
            /\ (valid = {} /\ IsSome(current))
                  => result = Some(Iso(Floor0(Val(current) - 1000)))
            /\ (valid # {} \/ IsSome(current)) => (Val(result).kind = "iso" /\ Val(result).ms >= 0)
            /\ (valid = {} /\ ~IsSome(C)) => result = None

\* a batch with an ignored entry and a valid timestamp later than a valid cursor
C11_Witness ==
    /\ IsSome(cOut)
    /\ \E i \in 1..Len(Val(cIn).timestamps) : ~ValidStamp(Val(cIn).timestamps[i])
    /\ IsSome(Val(cIn).currentSince)
    /\ IsSome(DateParse(Val(Val(cIn).currentSince)))
    /\ ValidMillis(Val(cIn).timestamps) # {}
    /\ MaxOf(ValidMillis(Val(cIn).timestamps)) > Val(DateParse(Val(Val(cIn).currentSince)))
    /\ Val(cOut) = Some(Iso(1000))

(***************************************************************************)
(* collectPagedMessages on its own (SpecPages)                             *)
(***************************************************************************)
MaxPages == 3

\* response.cursor: not a string (undefined / null), empty, blank, or a
\* continuation cursor; "x " is a cursor different from "x"
ReplyPool ==
    {None, Some(<<>>), Some(<<" ">>), Some(<<"x">>), Some(<<"y">>), Some(<<"z">>),
     Some(<<"x", " ">>)}

PagesInit ==
    /\ StoreIdle
    /\ inv = IdleInv
    /\ out = IdleOut
    /\ kIn = None
    /\ kOut = None
    /\ rIn = None
    /\ rOut = None
    /\ snd = IdleSend
    /\ cIn = None
    /\ cOut = None
    /\ procs = IdleProcs
    /\ \E maxPages \in 1..MaxPages :
          pg = [pc          |-> "loop",
                maxPages    |-> maxPages,
                page        |-> 0,
                cursor      |-> None,
                seenCursors |-> {},
                calls       |-> <<>>,
                replies     |-> <<>>]

PagesUnchanged ==
    UNCHANGED <<db, now, hist, ncalls, inboxVars, kIn, kOut, rIn, rOut, snd, cIn, cOut, procs>>

\* the loop body without the seenCursors test
FetchPage_NoCycleGuard(nextCursor) ==
    /\ pg.pc = "loop"
    /\ pg.page < pg.maxPages
    /\ pg' = IF ~IsSome(nextCursor) \/ Len(Trim(Val(nextCursor))) = 0
             THEN [pg EXCEPT !.pc = "done",
                             !.calls = Append(@, pg.cursor),
                             !.replies = Append(@, nextCursor)]
             ELSE [pg EXCEPT !.page = @ + 1,
                             !.cursor = nextCursor,
                             !.seenCursors = @ \cup {Val(nextCursor)},
                             !.calls = Append(@, pg.cursor),
                             !.replies = Append(@, nextCursor)]
    /\ PagesUnchanged

\* one turn of the loop: fetchPage(cursor) answered with response.cursor = nextCursor
FetchPage(nextCursor) ==
    /\ pg.pc = "loop"
    /\ pg.page < pg.maxPages
    /\ pg' = IF \/ ~IsSome(nextCursor)
                \/ Len(Trim(Val(nextCursor))) = 0
                \/ Val(nextCursor) \in pg.seenCursors
             THEN [pg EXCEPT !.pc = "done",
                             !.calls = Append(@, pg.cursor),
                             !.replies = Append(@, nextCursor)]
             ELSE [pg EXCEPT !.page = @ + 1,
                             !.cursor = nextCursor,
                             !.seenCursors = @ \cup {Val(nextCursor)},
                             !.calls = Append(@, pg.cursor),
                             !.replies = Append(@, nextCursor)]
    /\ PagesUnchanged

\* fetchPage rejects: the exception leaves collectPagedMessages
FetchPageThrows ==
    /\ pg.pc = "loop"
    /\ pg.page < pg.maxPages
    /\ pg' = [pg EXCEPT !.pc = "threw", !.calls = Append(@, pg.cursor)]
    /\ PagesUnchanged

\* page < maxPages is false: return collected
PagesExhausted ==
    /\ pg.pc = "loop"
    /\ pg.page >= pg.maxPages
    /\ pg' = [pg EXCEPT !.pc = "done"]
    /\ PagesUnchanged

PagesNext ==
    \/ \E nextCursor \in ReplyPool : FetchPage(nextCursor)
    \/ FetchPageThrows
    \/ PagesExhausted

SpecPages == PagesInit /\ [][PagesNext]_vars /\ WF_vars(PagesNext)

Stopping(reply) ==
    \/ ~IsSome(reply)
    \/ Len(Trim(Val(reply))) = 0

PagesSafe ==
    pg.pc # "idle" =>
        /\ Len(pg.calls) <= pg.maxPages
        /\ \A i \in 1..Len(pg.calls) : \A j \in 1..Len(pg.calls) :
              i # j => pg.calls[i] # pg.calls[j]
        /\ \A i \in 1..Len(pg.replies) :
              (\/ Stopping(pg.replies[i])
               \/ \E j \in 1..(i - 1) : pg.replies[j] = pg.replies[i])
                 => (pg.pc = "done" /\ i = Len(pg.replies))
        /\ (\A i \in 1..Len(pg.replies) : pg.replies[i] = pg.replies[1])
              => Len(pg.calls) <= 2

\* C12: whatever the provider answers, collectPagedMessages terminates; it
\* calls fetchPage at most maxPages times and never twice with the same
\* continuation cursor, stops at the first missing, blank or previously
\* returned cursor, and queries a provider that always returns the same
\* cursor at most twice.
C12_PagingTerminates == []PagesSafe /\ <>(pg.pc \in {"done", "threw"})

\* the provider returned the same cursor twice and the second call was the last
C12_Witness ==
    /\ pg.pc = "done"
    /\ pg.maxPages > 2
    /\ Len(pg.replies) = 2
    /\ pg.replies[1] = pg.replies[2]
    /\ IsSome(pg.replies[1])
    /\ Len(Trim(Val(pg.replies[1]))) > 0

(***************************************************************************)
(* Two stateful invocations on one store (SpecTwo)                         *)
(***************************************************************************)
MaxRounds == 2

Procs == {1, 2}

\* a stateful watch without --since and without --reset-state, after
\* createInboxStateStore and buildInboxScopeKey; solo is the store as it
\* would be had this invocation been the only one, soloSince, soloNew and
\* soloEmitted what the invocation would have read and printed from it
StartProc(f) ==
    [pc          |-> "cursor",
     scope       |-> f,
     scopeKey    |-> buildInboxScopeKey(ScopeDescriptor(f)),
     sinceCursor |-> None,
     round       |-> 0,
     sorted      |-> <<>>,
     idx         |-> 0,
     newMessages |-> <<>>,
     emitted     |-> <<>>,
     solo        |-> EmptyDb,
     soloSince   |-> None,
     soloNew     |-> <<>>,
     soloEmitted |-> <<>>]

TwoInit ==
    /\ StoreIdle
    /\ inv = IdleInv
    /\ out = IdleOut
    /\ kIn = None
    /\ kOut = None
    /\ rIn = None
    /\ rOut = None
    /\ snd = IdleSend
    /\ cIn = None
    /\ cOut = None
    /\ pg = IdlePages
    /\ \E f1 \in ScopeFlags, f2 \in ScopeFlags :
          procs = [p \in Procs |-> StartProc(IF p = 1 THEN f1 ELSE f2)]

TwoUnchanged == UNCHANGED <<now, hist, ncalls, inboxVars, kIn, kOut, rIn, rOut, snd, cIn, cOut, pg>>

\* stateStore.getCursor(scopeKey)
ProcCursor(p) ==
    /\ procs[p].pc = "cursor"
    /\ procs' = [procs EXCEPT ![p] =
                    [@ EXCEPT !.pc = "fetch",
                              !.sinceCursor = getCursor(db, procs[p].scopeKey),
                              !.soloSince = getCursor(procs[p].solo, procs[p].scopeKey)]]
    /\ UNCHANGED db
    /\ TwoUnchanged

\* fetchScopedMessages and sortMessagesChronologically of one round
ProcFetch(p, collected) ==
    /\ procs[p].pc = "fetch"
    /\ procs' = [procs EXCEPT ![p] =
                    [@ EXCEPT !.pc = "persist",
                              !.round = @ + 1,
                              !.sorted = sortMessagesChronologically(dedupeMessages(collected)),
                              !.idx = 1,
                              !.newMessages = <<>>,
                              !.soloNew = <<>>]]
    /\ UNCHANGED db
    /\ TwoUnchanged

\* one turn of the loop over sorted
ProcPersist(p) ==
    /\ procs[p].pc = "persist"
    /\ procs[p].idx <= Len(procs[p].sorted)
    /\ LET message == procs[p].sorted[procs[p].idx]
           persisted == persistMessage(db, procs[p].scopeKey, message, now)
           alone == persistMessage(procs[p].solo, procs[p].scopeKey, message, now)
       IN  /\ db' = persisted.db
           /\ procs' = [procs EXCEPT ![p] =
                           [@ EXCEPT !.idx = @ + 1,
                                     !.newMessages = IF persisted.result.isNewForScope
                                                     THEN Append(@, message) ELSE @,
                                     !.solo = alone.db,
                                     !.soloNew = IF alone.result.isNewForScope
                                                 THEN Append(@, message) ELSE @]]
    /\ TwoUnchanged

\* computeNextSinceCursor and upsertScopeState, after the loop
ProcUpsert(p) ==
    /\ procs[p].pc = "persist"
    /\ procs[p].idx > Len(procs[p].sorted)
    /\ LET nextSince == computeNextSinceCursor(procs[p].sinceCursor, Timestamps(procs[p].sorted))
           soloNext == computeNextSinceCursor(procs[p].soloSince, Timestamps(procs[p].sorted))
       IN  /\ db' = upsertScopeState(db, UpsertArgs(procs[p].scope, nextSince), now)
           /\ procs' = [procs EXCEPT ![p] =
                           [@ EXCEPT !.pc = "emit",
                                     !.sinceCursor = nextSince,
                                     !.solo = upsertScopeState(@, UpsertArgs(procs[p].scope, soloNext), now),
                                     !.soloSince = soloNext]]
    /\ TwoUnchanged

\* printResult of the round, then the next round or the end of the watch
ProcEmit(p) ==
    /\ procs[p].pc = "emit"
    /\ procs' = [procs EXCEPT ![p] =
                    [@ EXCEPT !.pc = IF procs[p].round >= MaxRounds THEN "done" ELSE "fetch",
                              !.emitted = Append(@, procs[p].newMessages),
                              !.soloEmitted = Append(@, procs[p].soloNew)]]
    /\ UNCHANGED db
    /\ TwoUnchanged

TwoNext ==
    \E p \in Procs :
        \/ ProcCursor(p)
        \/ \E collected \in SeqsUpTo(ProviderMessages, MaxBatch) : ProcFetch(p, collected)
        \/ ProcPersist(p)
        \/ ProcUpsert(p)
        \/ ProcEmit(p)

SpecTwo == TwoInit /\ [][TwoNext]_vars

SeenMarks(d, scopeKey) == {s \in d.scope_message_seen : s.scope_key = scopeKey}

AsIfAlone(me) ==
    /\ me.emitted = me.soloEmitted
    /\ me.newMessages = me.soloNew
    /\ me.sinceCursor = me.soloSince
    /\ getCursor(db, me.scopeKey) = getCursor(me.solo, me.scopeKey)
    /\ SeenMarks(db, me.scopeKey) = SeenMarks(me.solo, me.scopeKey)

\* C16: when two stateful invocations with different scope keys interleave
\* their store operations in any order, what each one emits, the cursor it
\* reads and persists and the seen-marks of its scope are, at every step and
\* at the end, those of the same invocation run alone on the same fetches.
C16_DifferentScopesIsolated ==
    \A p \in DOMAIN procs : \A q \in DOMAIN procs :
        procs[p].scopeKey # procs[q].scopeKey => AsIfAlone(procs[p])

\* two invocations with different scope keys are both in the middle of their
\* persist loops, each having found the same message new for its scope
C16_Witness ==
    /\ DOMAIN procs = Procs
    /\ procs[1].scopeKey # procs[2].scopeKey
    /\ procs[1].pc = "persist" /\ procs[2].pc = "persist"
    /\ procs[1].round = 2 /\ procs[2].round = 1
    /\ \E m \in ProviderMessages :
          /\ m \in Range(procs[1].emitted[1])
          /\ m \in Range(procs[2].newMessages)
    /\ procs[1].idx = 2 /\ Len(procs[1].sorted) = 2 /\ Len(procs[1].newMessages) = 0

\* the pairs an invocation has printed or is about to print
EmittedPairs(me) ==
    {PairOf(m) : m \in Range(me.newMessages)}
        \cup UNION {{PairOf(m) : m \in Range(me.emitted[r])} : r \in 1..Len(me.emitted)}

====
